---------------------------- MODULE Spec2Model ----------------------------
(* Food-rescue logistics: the confirmation workflow                        *)
(* (foodbank/services/confirmation_workflow.py) and the route optimizer    *)
(* (foodbank/services/route_optimizer.py), with the records of             *)
(* foodbank/models.py they read and write.                                 *)
EXTENDS Integers, Sequences, FiniteSets, TLC

VARIABLES
    stops,          \* RouteStop table: stop id -> row
    notifications,  \* EmailScheduleNotification table, in creation order
    now,            \* timezone.now(): a logical clock, one tick per row created
    result,         \* return value of the last service call
    calls,          \* number of service calls made so far
    pc,             \* concurrent requests: position of each request
    req,            \* concurrent requests: (stop_id, response_content) of each request
    local,          \* concurrent requests: the model instances each request holds
    region,         \* RouteOptimizer.region: center and truck_capacity_pounds
    food_banks,     \* region.food_banks.filter(is_active=True), in query order
    donations,      \* optimize_route(donations, ...)
    quantity_type,  \* Python type of every donation.quantity_pounds
    target_date,    \* optimize_route(..., target_date), a day counted from today
    opt_pc,         \* position of the optimize_route call
    pickup_sequence,
    sorted_donations,     \* _allocate_food_to_banks: donations the loop has not reached
    bank_allocation,      \* _allocate_food_to_banks: bank -> donations
    bank_current_weight,  \* _allocate_food_to_banks: bank -> pounds
    delivery_sequence,
    route_plan      \* what optimize_route returns

workflowVars == <<stops, notifications, now, result, calls, pc, req, local>>
planVars == <<region, food_banks, donations, quantity_type, target_date, opt_pc,
              pickup_sequence, sorted_donations, bank_allocation,
              bank_current_weight, delivery_sequence, route_plan>>
vars == <<workflowVars, planVars>>

-----------------------------------------------------------------------------
(* Bounds of the model *)

\* stops materialized before the workflow starts
NumStops == 4
\* service calls in one behaviour
MaxCalls == 3

-----------------------------------------------------------------------------
(* Text: a str is a sequence of one-character strings *)

UpperCase == <<"A","B","C","D","E","F","G","H","I","J","K","L","M",
               "N","O","P","Q","R","S","T","U","V","W","X","Y","Z">>
LowerCase == <<"a","b","c","d","e","f","g","h","i","j","k","l","m",
               "n","o","p","q","r","s","t","u","v","w","x","y","z">>

\* str.lower() on one character
LowerChar(c) ==
    IF \E i \in 1..26 : UpperCase[i] = c
    THEN LowerCase[CHOOSE i \in 1..26 : UpperCase[i] = c]
    ELSE c

\* str.lower()
Lower(s) == [i \in 1..Len(s) |-> LowerChar(s[i])]

\* str.strip(): drops leading and trailing whitespace
RECURSIVE Strip(_)
Strip(s) ==
    IF s = <<>> THEN s
    ELSE IF Head(s) = " " THEN Strip(Tail(s))
    ELSE IF s[Len(s)] = " " THEN Strip(SubSeq(s, 1, Len(s) - 1))
    ELSE s

\* pat in s
Contains(s, pat) ==
    \E i \in 1..(Len(s) - Len(pat) + 1) : SubSeq(s, i, i + Len(pat) - 1) = pat

STR_confirmed == <<"c","o","n","f","i","r","m","e","d">>
STR_reschedule == <<"r","e","s","c","h","e","d","u","l","e">>
\* the literal parts of the f-strings written to notes, each kept as one piece
STR_RescheduleRequested == <<"Reschedule requested: ">>
STR_ResponseReceived == <<"Response received: ">>

\* Response texts the requests are drawn from
TXT_CONFIRMED == <<"C","O","N","F","I","R","M","E","D">>
TXT_RESCHEDULE == <<"R","E","S","C","H","E","D","U","L","E">>
TXT_ok == <<"o","k">>
Texts == {TXT_CONFIRMED, TXT_RESCHEDULE, TXT_ok}

-----------------------------------------------------------------------------
(* Records of models.py *)

\* a NULL column (null=True): no row has id 0 and the clock starts after 0
NULL == 0
StopIds == 1..NumStops
\* one id that names no stop
UnknownStopId == NumStops + 1

\* The routes the stops were materialized for: three stops per route,
\* pickups first and the delivery last, stop_order 1-based within the route.
RouteOfStop(s) == ((s - 1) \div 3) + 1
StopOrderOf(s) == ((s - 1) % 3) + 1
StopTypeOf(s) == IF StopOrderOf(s) = 3 THEN "delivery" ELSE "pickup"
\* one route more than the stops use: a route with no stop
Routes == 1..(RouteOfStop(NumStops) + 1)

\* A RouteStop row as create_delivery_route leaves it
NewStop(s) ==
    [ route |-> RouteOfStop(s),
      stop_order |-> StopOrderOf(s),
      stop_type |-> StopTypeOf(s),
      grocery_store |-> IF StopTypeOf(s) = "pickup" THEN s ELSE NULL,
      food_bank |-> IF StopTypeOf(s) = "delivery" THEN s ELSE NULL,
      estimated_arrival_time |-> 480 + 30 * StopOrderOf(s),
      estimated_duration_minutes |-> 20,
      donations |-> <<s>>,
      is_confirmed |-> FALSE,
      confirmed_at |-> NULL,
      notes |-> <<>> ]

\* EmailScheduleNotification.objects.create(...): defaults of the model
NewNotification(type, stopId, t) ==
    [ notification_type |-> type,
      route_stop |-> stopId,
      is_sent |-> FALSE,
      sent_at |-> NULL,
      response_received |-> FALSE,
      response_content |-> <<>>,
      created_at |-> t ]

\* route.stops.all() / .filter(stop_type=...), in Meta.ordering (route, stop_order)
RECURSIVE SortedSeq(_)
SortedSeq(S) ==
    IF S = {} THEN <<>>
    ELSE LET m == CHOOSE x \in S : \A y \in S : x <= y
         IN <<m>> \o SortedSeq(S \ {m})

\* The stops of a type, of whatever route
StopsOfTypeAnyRoute(tbl, route, type) == {s \in DOMAIN tbl : tbl[s].stop_type = type}

StopsOfRoute(tbl, route) == {s \in DOMAIN tbl : tbl[s].route = route}
StopsOfType(tbl, route, type) ==
    {s \in StopsOfRoute(tbl, route) : tbl[s].stop_type = type}


-----------------------------------------------------------------------------
(* ConfirmationWorkflowService: sending *)

\* The notification sink answers each send with one of these
Outcomes == {"ok", "fail"}

\* _send_email: on success marks the notification sent and returns True; an
\* exception raised by the send leaves the row unsent and returns False.
\* db = [n |-> notification table, t |-> clock]
_send_email(db, idx, outcome) ==
    IF outcome = "ok"
    THEN [ n |-> [db.n EXCEPT ![idx].is_sent = TRUE, ![idx].sent_at = db.t],
           t |-> db.t,
           ok |-> TRUE ]
    ELSE [ n |-> db.n, t |-> db.t, ok |-> FALSE ]

\* objects.create(...) followed by _send_email, shared by the three senders
CreateAndSend(db, type, s, outcome) ==
    LET created == [ n |-> Append(db.n, NewNotification(type, s, db.t)),
                     t |-> db.t + 1 ]
    IN _send_email(created, Len(created.n), outcome)

\* _send_pickup_confirmation reusing an unanswered notification of the stop
\* instead of creating a new one
SendPickupDeduplicated(db, tbl, s, outcome) ==
    IF tbl[s].grocery_store = NULL
    THEN [ n |-> db.n, t |-> db.t, ok |-> FALSE ]
    ELSE IF \E i \in 1..Len(db.n) : db.n[i].route_stop = s
    THEN _send_email(db, CHOOSE i \in 1..Len(db.n) : db.n[i].route_stop = s, outcome)
    ELSE CreateAndSend(db, "pickup_confirmation", s, outcome)

_send_pickup_confirmation(db, tbl, s, outcome) ==
    IF tbl[s].grocery_store = NULL
    THEN [ n |-> db.n, t |-> db.t, ok |-> FALSE ]
    ELSE CreateAndSend(db, "pickup_confirmation", s, outcome)

_send_delivery_confirmation(db, tbl, s, outcome) ==
    IF tbl[s].food_bank = NULL
    THEN [ n |-> db.n, t |-> db.t, ok |-> FALSE ]
    ELSE CreateAndSend(db, "delivery_confirmation", s, outcome)

\* body of the loop of send_schedule_change_notifications: reading .email of
\* a missing store or bank raises, which the loop counts as a failure
SendScheduleChange(db, tbl, s, outcome) ==
    LET recipient == IF tbl[s].stop_type = "pickup"
                     THEN tbl[s].grocery_store ELSE tbl[s].food_bank
    IN IF recipient = NULL
       THEN [ n |-> db.n, t |-> db.t, ok |-> FALSE ]
       ELSE CreateAndSend(db, "schedule_change", s, outcome)

\* one iteration of a sender's loop, by sender
SendOne(sender, db, tbl, s, outcome) ==
    CASE sender = "send_pickup_confirmations" ->
            _send_pickup_confirmation(db, tbl, s, outcome)
      [] sender = "send_delivery_confirmations" ->
            _send_delivery_confirmation(db, tbl, s, outcome)
      [] sender = "send_schedule_change_notifications" ->
            SendScheduleChange(db, tbl, s, outcome)

\* SendLoop leaving the loop at the first failed send
RECURSIVE SendLoopAborting(_, _, _, _, _, _)
SendLoopAborting(sender, seq, i, acc, tbl, outcomes) ==
    IF i > Len(seq) THEN acc
    ELSE LET r == SendOne(sender, [n |-> acc.n, t |-> acc.t], tbl, seq[i],
                          outcomes[seq[i]])
         IN IF r.ok
            THEN SendLoopAborting(sender, seq, i + 1,
                                  [ n |-> r.n, t |-> r.t,
                                    sent |-> acc.sent + 1, failed |-> acc.failed ],
                                  tbl, outcomes)
            ELSE [ n |-> r.n, t |-> r.t,
                   sent |-> acc.sent, failed |-> acc.failed + 1 ]

\* for stop in <stops>: try ... sent_count += 1 / failed_count += 1
\* acc = [n, t, sent, failed]
RECURSIVE SendLoop(_, _, _, _, _, _)
SendLoop(sender, seq, i, acc, tbl, outcomes) ==
    IF i > Len(seq) THEN acc
    ELSE LET r == SendOne(sender, [n |-> acc.n, t |-> acc.t], tbl, seq[i],
                          outcomes[seq[i]])
         IN SendLoop(sender, seq, i + 1,
                     [ n |-> r.n, t |-> r.t,
                       sent |-> IF r.ok THEN acc.sent + 1 ELSE acc.sent,
                       failed |-> IF r.ok THEN acc.failed ELSE acc.failed + 1 ],
                     tbl, outcomes)

\* The stops a sender iterates over
SenderStops(sender, tbl, route) ==
    CASE sender = "send_pickup_confirmations" -> StopsOfType(tbl, route, "pickup")
      [] sender = "send_delivery_confirmations" -> StopsOfType(tbl, route, "delivery")
      [] sender = "send_schedule_change_notifications" -> StopsOfRoute(tbl, route)

Senders == {"send_pickup_confirmations", "send_delivery_confirmations",
            "send_schedule_change_notifications"}

\* send_pickup_confirmations / send_delivery_confirmations /
\* send_schedule_change_notifications: [n, t, sent, failed, total]
BatchSend(sender, db, tbl, route, outcomes) ==
    LET seq == SortedSeq(SenderStops(sender, tbl, route))
        acc == SendLoop(sender, seq, 1,
                        [n |-> db.n, t |-> db.t, sent |-> 0, failed |-> 0],
                        tbl, outcomes)
    IN [ n |-> acc.n, t |-> acc.t,
         sent |-> acc.sent, failed |-> acc.failed, total |-> Len(seq) ]


-----------------------------------------------------------------------------
(* ConfirmationWorkflowService: responses and readiness *)

\* EmailScheduleNotification.objects.filter(route_stop=stop, is_sent=True)
SentNotifications(ntfs, s) ==
    {i \in 1..Len(ntfs) : ntfs[i].route_stop = s /\ ntfs[i].is_sent}

\* FirstByCreatedDesc with the ordering reversed: the oldest row
FirstByCreatedAsc(ntfs, S) ==
    IF S = {} THEN 0
    ELSE CHOOSE i \in S : \A j \in S : ntfs[i].created_at <= ntfs[j].created_at

\* .first() under Meta.ordering = ['-created_at']: 0 stands for None
FirstByCreatedDesc(ntfs, S) ==
    IF S = {} THEN 0
    ELSE CHOOSE i \in S : \A j \in S : ntfs[j].created_at <= ntfs[i].created_at

\* The branch of process_email_response the text selects:
\* Classify without lower(): the keywords are matched in lower case only
ClassifyCaseSensitive(response_content) ==
    LET response_stripped == Strip(response_content)
    IN IF Contains(response_stripped, STR_confirmed) THEN "confirmed"
       ELSE IF Contains(response_stripped, STR_reschedule) THEN "reschedule_requested"
       ELSE "response_recorded"

\* response_lower = response_content.lower().strip(); 'confirmed' in response_lower ...
Classify(response_content) ==
    LET response_lower == Strip(Lower(response_content))
    IN IF Contains(response_lower, STR_confirmed) THEN "confirmed"
       ELSE IF Contains(response_lower, STR_reschedule) THEN "reschedule_requested"
       ELSE "response_recorded"

\* Classify on the texts of the model, evaluated once
ClassifyTable == [txt \in Texts |-> Classify(txt)]
Branch(txt) == ClassifyTable[txt]

\* RespondedStop with a reschedule request clearing the estimated arrival
RespondedStopClearingArrival(row, response_content, t) ==
    CASE Branch(response_content) = "confirmed" ->
            [row EXCEPT !.is_confirmed = TRUE, !.confirmed_at = t]
      [] Branch(response_content) = "reschedule_requested" ->
            [row EXCEPT !.notes = STR_RescheduleRequested \o response_content,
                        !.estimated_arrival_time = NULL]
      [] Branch(response_content) = "response_recorded" ->
            [row EXCEPT !.notes = STR_ResponseReceived \o response_content]

\* RespondedStop with a reschedule request taking the confirmation back
RespondedStopReopening(row, response_content, t) ==
    CASE Branch(response_content) = "confirmed" ->
            [row EXCEPT !.is_confirmed = TRUE, !.confirmed_at = t]
      [] Branch(response_content) = "reschedule_requested" ->
            [row EXCEPT !.notes = STR_RescheduleRequested \o response_content,
                        !.is_confirmed = FALSE]
      [] Branch(response_content) = "response_recorded" ->
            [row EXCEPT !.notes = STR_ResponseReceived \o response_content]

\* The assignments process_email_response makes to the stop instance it holds
RespondedStop(row, response_content, t) ==
    CASE Branch(response_content) = "confirmed" ->
            [row EXCEPT !.is_confirmed = TRUE, !.confirmed_at = t]
      [] Branch(response_content) = "reschedule_requested" ->
            [row EXCEPT !.notes = STR_RescheduleRequested \o response_content]
      [] Branch(response_content) = "response_recorded" ->
            [row EXCEPT !.notes = STR_ResponseReceived \o response_content]

\* The assignments process_email_response makes to the notification it found
RespondedNotification(ntf, response_content) ==
    [ntf EXCEPT !.response_received = TRUE, !.response_content = response_content]

\* NotFoundResult reporting the response as processed
NotFoundAsProcessed(stop_id) ==
    [ op |-> "process_email_response", stop_id |-> stop_id,
      processed |-> TRUE, action |-> "response_recorded",
      message |-> "Response recorded - may require manual review" ]

NotFoundResult(stop_id) ==
    [ op |-> "process_email_response", stop_id |-> stop_id,
      processed |-> FALSE, action |-> "None", message |-> "Route stop not found" ]

ProcessedResult(stop_id, response_content) ==
    [ op |-> "process_email_response", stop_id |-> stop_id,
      processed |-> TRUE, action |-> Branch(response_content),
      message |-> CASE Branch(response_content) = "confirmed" ->
                          "Pickup/delivery confirmed successfully"
                    [] Branch(response_content) = "reschedule_requested" ->
                          "Reschedule request received - manual review required"
                    [] Branch(response_content) = "response_recorded" ->
                          "Response recorded - may require manual review" ]

\* process_email_response run to completion: [stops, n, t, result]
process_email_response(tbl, ntfs, t, stop_id, response_content) ==
    IF stop_id \notin DOMAIN tbl
    THEN [ stops |-> tbl, n |-> ntfs, t |-> t, result |-> NotFoundResult(stop_id) ]
    ELSE LET confirmed == Branch(response_content) = "confirmed"
             idx == FirstByCreatedDesc(ntfs, SentNotifications(ntfs, stop_id))
         IN [ stops |-> [tbl EXCEPT ![stop_id] =
                            RespondedStop(tbl[stop_id], response_content, t)],
              n |-> IF confirmed /\ idx # 0
                    THEN [ntfs EXCEPT ![idx] =
                            RespondedNotification(ntfs[idx], response_content)]
                    ELSE ntfs,
              t |-> t,
              result |-> ProcessedResult(stop_id, response_content) ]

\* stops.filter(is_confirmed=True).count() over a set of stops
ConfirmedCount(tbl, S) == Cardinality({s \in S : tbl[s].is_confirmed})

\* check_pending_confirmations deciding readiness on the pickup stops alone
ReadinessFromPickups(tbl, route) ==
    LET all == StopsOfRoute(tbl, route)
        pickup_stops == StopsOfType(tbl, route, "pickup")
        delivery_stops == StopsOfType(tbl, route, "delivery")
    IN [ op |-> "check_pending_confirmations",
         route_id |-> route,
         total_stops |-> Cardinality(all),
         confirmed_stops |-> ConfirmedCount(tbl, all),
         pending_stops |-> Cardinality(all) - ConfirmedCount(tbl, all),
         confirmation_rate |-> IF Cardinality(all) > 0
                               THEN <<ConfirmedCount(tbl, all) * 100, Cardinality(all)>>
                               ELSE <<0, 1>>,
         pickup_confirmations |->
            [ total |-> Cardinality(pickup_stops),
              confirmed |-> ConfirmedCount(tbl, pickup_stops),
              pending |-> Cardinality(pickup_stops) - ConfirmedCount(tbl, pickup_stops) ],
         delivery_confirmations |->
            [ total |-> Cardinality(delivery_stops),
              confirmed |-> ConfirmedCount(tbl, delivery_stops),
              pending |-> Cardinality(delivery_stops)
                             - ConfirmedCount(tbl, delivery_stops) ],
         ready_for_execution |->
            Cardinality(pickup_stops) - ConfirmedCount(tbl, pickup_stops) = 0 ]

\* check_pending_confirmations: the status dictionary
check_pending_confirmations(tbl, route) ==
    LET all == StopsOfRoute(tbl, route)
        total_stops == Cardinality(all)
        confirmed_stops == ConfirmedCount(tbl, all)
        pending_stops == total_stops - confirmed_stops
        pickup_stops == StopsOfType(tbl, route, "pickup")
        delivery_stops == StopsOfType(tbl, route, "delivery")
        confirmed_pickups == ConfirmedCount(tbl, pickup_stops)
        confirmed_deliveries == ConfirmedCount(tbl, delivery_stops)
    IN [ op |-> "check_pending_confirmations",
         route_id |-> route,
         total_stops |-> total_stops,
         confirmed_stops |-> confirmed_stops,
         pending_stops |-> pending_stops,
         \* confirmed_stops / total_stops * 100, kept as the fraction's two terms
         confirmation_rate |-> IF total_stops > 0
                               THEN <<confirmed_stops * 100, total_stops>>
                               ELSE <<0, 1>>,
         pickup_confirmations |->
            [ total |-> Cardinality(pickup_stops),
              confirmed |-> confirmed_pickups,
              pending |-> Cardinality(pickup_stops) - confirmed_pickups ],
         delivery_confirmations |->
            [ total |-> Cardinality(delivery_stops),
              confirmed |-> confirmed_deliveries,
              pending |-> Cardinality(delivery_stops) - confirmed_deliveries ],
         ready_for_execution |-> pending_stops = 0 ]


-----------------------------------------------------------------------------
(* The confirmation handshake, one call at a time *)

NoResult == [op |-> "none"]
Procs == {1, 2}

\* The requests of the concurrent specification are not running
ConcIdle ==
    /\ pc = [p \in Procs |-> "idle"]
    /\ req = [p \in Procs |-> NULL]
    /\ local = [p \in Procs |-> NULL]

\* No optimize_route call is running
PlanIdle ==
    /\ region = NULL
    /\ food_banks = <<>>
    /\ donations = <<>>
    /\ quantity_type = "float"
    /\ target_date = NULL
    /\ opt_pc = "idle"
    /\ pickup_sequence = <<>>
    /\ sorted_donations = <<>>
    /\ bank_allocation = <<>>
    /\ bank_current_weight = <<>>
    /\ delivery_sequence = <<>>
    /\ route_plan = NULL

\* The tables after create_delivery_route, before any notification
Init ==
    /\ stops = [s \in StopIds |-> NewStop(s)]
    /\ notifications = <<>>
    /\ now = 1
    /\ result = NoResult
    /\ calls = 0
    /\ ConcIdle
    /\ PlanIdle

\* requestConfirmation: _send_pickup_confirmation or _send_delivery_confirmation
\* on one stop, by the stop's type
RequestConfirmation(s, outcome) ==
    /\ calls < MaxCalls
    /\ calls' = calls + 1
    /\ LET db == [n |-> notifications, t |-> now]
           r == IF stops[s].stop_type = "pickup"
                THEN _send_pickup_confirmation(db, stops, s, outcome)
                ELSE _send_delivery_confirmation(db, stops, s, outcome)
       IN /\ notifications' = r.n
          /\ now' = r.t
          /\ result' = [op |-> "request_confirmation", stop_id |-> s, ok |-> r.ok]
    /\ UNCHANGED <<stops, pc, req, local>>
    /\ UNCHANGED planVars

\* recordResponse
ProcessEmailResponse(stop_id, response_content) ==
    /\ calls < MaxCalls
    /\ calls' = calls + 1
    /\ LET r == process_email_response(stops, notifications, now,
                                       stop_id, response_content)
       IN /\ stops' = r.stops
          /\ notifications' = r.n
          /\ now' = r.t
          /\ result' = r.result
    /\ UNCHANGED <<pc, req, local>>
    /\ UNCHANGED planVars

\* routeReadiness
CheckPendingConfirmations(route) ==
    /\ calls < MaxCalls
    /\ calls' = calls + 1
    /\ result' = check_pending_confirmations(stops, route)
    /\ UNCHANGED <<stops, notifications, now, pc, req, local>>
    /\ UNCHANGED planVars

Next ==
    \/ \E s \in StopIds, outcome \in Outcomes : RequestConfirmation(s, outcome)
    \/ \E stop_id \in StopIds \cup {UnknownStopId}, txt \in Texts :
          ProcessEmailResponse(stop_id, txt)
    \/ \E route \in Routes : CheckPendingConfirmations(route)

Spec == Init /\ [][Next]_vars

-----------------------------------------------------------------------------
(* The batch senders, one call at a time *)

\* A sender is called on a route; the sink answers each send
CallSender(sender, route) ==
    /\ calls < MaxCalls
    /\ calls' = calls + 1
    /\ \E outcomes \in [SenderStops(sender, stops, route) -> Outcomes] :
          LET r == BatchSend(sender, [n |-> notifications, t |-> now],
                             stops, route, outcomes)
          IN /\ notifications' = r.n
             /\ now' = r.t
             /\ result' = [ op |-> sender, route |-> route, sent |-> r.sent,
                            failed |-> r.failed, total |-> r.total,
                            outcomes |-> outcomes, before |-> Len(notifications) ]
    /\ UNCHANGED <<stops, pc, req, local>>
    /\ UNCHANGED planVars

SendPickupConfirmations(route) == CallSender("send_pickup_confirmations", route)

SendDeliveryConfirmations(route) == CallSender("send_delivery_confirmations", route)

SendScheduleChangeNotifications(route) ==
    CallSender("send_schedule_change_notifications", route)

NextSend ==
    \/ \E route \in Routes : SendPickupConfirmations(route)
    \/ \E route \in Routes : SendDeliveryConfirmations(route)
    \/ \E route \in Routes : SendScheduleChangeNotifications(route)

SpecSend == Init /\ [][NextSend]_vars

\* Every operation of the service, one call at a time, one call fewer than
\* the handshake alone
MoreCalls == calls + 1 < MaxCalls

NextWorkflow ==
    \/ \E s \in StopIds, outcome \in Outcomes :
          MoreCalls /\ RequestConfirmation(s, outcome)
    \/ \E stop_id \in StopIds \cup {UnknownStopId}, txt \in Texts :
          MoreCalls /\ ProcessEmailResponse(stop_id, txt)
    \/ \E route \in Routes : MoreCalls /\ CheckPendingConfirmations(route)
    \/ \E route \in Routes : MoreCalls /\ SendPickupConfirmations(route)
    \/ \E route \in Routes : MoreCalls /\ SendDeliveryConfirmations(route)
    \/ \E route \in Routes : MoreCalls /\ SendScheduleChangeNotifications(route)

SpecWorkflow == Init /\ [][NextWorkflow]_vars

-----------------------------------------------------------------------------
(* Two process_email_response requests on one stop, served concurrently.   *)
(* Each request runs the statements of the method in order; every ORM call *)
(* (get, save, filter().first()) is one step on the shared tables, and     *)
(* save() writes every column of the instance the request holds.           *)

\* The tables when the responses arrive: the stop's confirmation request
\* was sent
SentRequest(s) ==
    _send_email([ n |-> <<NewNotification(
                            IF StopTypeOf(s) = "pickup" THEN "pickup_confirmation"
                            ELSE "delivery_confirmation", s, 1)>>,
                  t |-> 2 ], 1, "ok")

InitConc ==
    /\ stops = [s \in StopIds |-> NewStop(s)]
    /\ result = NoResult
    /\ calls = 0
    /\ \E s \in StopIds :
          /\ notifications = SentRequest(s).n
          /\ now = SentRequest(s).t
          /\ \E txts \in [Procs -> Texts] :
                req = [p \in Procs |-> [stop_id |-> s, response_content |-> txts[p]]]
    /\ pc = [p \in Procs |-> "get"]
    /\ local = [p \in Procs |-> [stop |-> NULL, idx |-> 0, notification |-> NULL]]
    /\ PlanIdle

\* stop = RouteStop.objects.get(id=stop_id)
GetStop(p) ==
    /\ pc[p] = "get"
    /\ local' = [local EXCEPT ![p].stop = stops[req[p].stop_id]]
    /\ pc' = [pc EXCEPT ![p] = "save_stop"]
    /\ UNCHANGED <<stops, notifications, now, result, calls, req>>
    /\ UNCHANGED planVars

\* SaveStop without stop.save(): the assignments stay on the instance
SaveStopLocalOnly(p) ==
    /\ pc[p] = "save_stop"
    /\ local' = [local EXCEPT ![p].stop =
                    RespondedStop(local[p].stop, req[p].response_content, now)]
    /\ pc' = [pc EXCEPT ![p] =
                IF Branch(req[p].response_content) = "confirmed"
                THEN "find_notification" ELSE "done"]
    /\ UNCHANGED <<stops, notifications, now, result, calls, req>>
    /\ UNCHANGED planVars

\* the assignments of the selected branch, then stop.save()
SaveStop(p) ==
    /\ pc[p] = "save_stop"
    /\ LET row == RespondedStop(local[p].stop, req[p].response_content, now)
       IN /\ stops' = [stops EXCEPT ![req[p].stop_id] = row]
          /\ local' = [local EXCEPT ![p].stop = row]
    /\ pc' = [pc EXCEPT ![p] =
                IF Branch(req[p].response_content) = "confirmed"
                THEN "find_notification" ELSE "done"]
    /\ UNCHANGED <<notifications, now, result, calls, req>>
    /\ UNCHANGED planVars

\* notification = ...filter(route_stop=stop, is_sent=True).first()
FindNotification(p) ==
    /\ pc[p] = "find_notification"
    /\ LET idx == FirstByCreatedDesc(notifications,
                                     SentNotifications(notifications, req[p].stop_id))
       IN /\ local' = [local EXCEPT ![p].idx = idx,
                                    ![p].notification =
                                        IF idx = 0 THEN NULL ELSE notifications[idx]]
          /\ pc' = [pc EXCEPT ![p] = IF idx = 0 THEN "done" ELSE "save_notification"]
    /\ UNCHANGED <<stops, notifications, now, result, calls, req>>
    /\ UNCHANGED planVars

\* if notification: ...; notification.save()
SaveNotification(p) ==
    /\ pc[p] = "save_notification"
    /\ notifications' =
          [notifications EXCEPT ![local[p].idx] =
              RespondedNotification(local[p].notification, req[p].response_content)]
    /\ pc' = [pc EXCEPT ![p] = "done"]
    /\ UNCHANGED <<stops, now, result, calls, req, local>>
    /\ UNCHANGED planVars

NextConc ==
    \/ \E p \in Procs : GetStop(p)
    \/ \E p \in Procs : SaveStop(p)
    \/ \E p \in Procs : FindNotification(p)
    \/ \E p \in Procs : SaveNotification(p)

SpecConc == InitConc /\ [][NextConc]_vars

-----------------------------------------------------------------------------
(* Route planning: RouteOptimizer (services/route_optimizer.py).           *)
(* Weights are whole pounds, dates are days counted from today, datetimes  *)
(* are minutes counted from today 00:00, and a location is a mile mark on  *)
(* one road, so that geodesic(a, b).miles is the difference of the marks.  *)

\* donations in one optimize_route call
MaxDonations == 2
\* active food banks of the region
MaxBanks == 2

Max(a, b) == IF a >= b THEN a ELSE b
Min(a, b) == IF a <= b THEN a ELSE b

MinutesPerDay == 1440
\* datetime of 08:00 on a day
EightOClock(day) == day * MinutesPerDay + 8 * 60
\* (timezone.now() + timedelta(days=1)).date()
Tomorrow == 1

Stores == {1, 2}
\* GroceryStore.latitude / longitude
StoreLocation(store) == IF store = 1 THEN 5 ELSE 0 - 5
\* FoodBank.latitude / longitude of the i-th bank of the region
BankLocation(i) == IF i = 1 THEN 3 ELSE IF i = 2 THEN 0 - 3 ELSE 12

geodesic_miles(a, b) == IF a >= b THEN a - b ELSE b - a

RECURSIVE SumQuantity(_)
\* sum(d.quantity_pounds for d in donations)
SumQuantity(ds) ==
    IF ds = <<>> THEN 0 ELSE Head(ds).quantity_pounds + SumQuantity(Tail(ds))

\* Decimal * float raises TypeError; the sum of no donation is the int 0
FloatProductRaises(ds) == quantity_type = "Decimal" /\ ds # <<>>

RECURSIVE GroupKeys(_, _)
GroupKeys(ds, keys) ==
    IF ds = <<>> THEN keys
    ELSE LET store == Head(ds).grocery_store
         IN GroupKeys(Tail(ds),
                      IF \E i \in DOMAIN keys : keys[i] = store
                      THEN keys ELSE Append(keys, store))

\* _group_donations_by_store assigning [donation] instead of appending: a
\* store keeps its last donation only
GroupKeepingLast(ds) ==
    [ keys |-> GroupKeys(ds, <<>>),
      lists |-> [store \in {ds[i].grocery_store : i \in DOMAIN ds} |->
                    LET mine == SelectSeq(ds, LAMBDA d : d.grocery_store = store)
                    IN <<mine[Len(mine)]>>] ]

\* The dict keeps insertion order: keys lists the stores by first donation
_group_donations_by_store(ds) ==
    [ keys |-> GroupKeys(ds, <<>>),
      lists |-> [store \in {ds[i].grocery_store : i \in DOMAIN ds} |->
                    SelectSeq(ds, LAMBDA d : d.grocery_store = store)] ]

\* list.remove(x)
Remove(seq, x) ==
    LET i == CHOOSE k \in DOMAIN seq : seq[k] = x /\ \A j \in 1..(k - 1) : seq[j] # x
    IN SubSeq(seq, 1, i - 1) \o SubSeq(seq, i + 1, Len(seq))

FindNearestStoreLastWins(current_location, unvisited) ==
    LET dist(i) == geodesic_miles(current_location, StoreLocation(unvisited[i]))
        k == CHOOSE i \in DOMAIN unvisited :
                /\ \A j \in DOMAIN unvisited : dist(i) <= dist(j)
                /\ \A j \in (i + 1)..Len(unvisited) : dist(j) > dist(i)
    IN unvisited[k]

\* The loop keeps the first location whose distance is below every earlier one
_find_nearest_store(current_location, unvisited) ==
    LET dist(i) == geodesic_miles(current_location, StoreLocation(unvisited[i]))
        k == CHOOSE i \in DOMAIN unvisited :
                /\ \A j \in DOMAIN unvisited : dist(i) <= dist(j)
                /\ \A j \in 1..(i - 1) : dist(j) > dist(i)
    IN unvisited[k]

_find_nearest_bank(current_location, unvisited) ==
    LET dist(i) == geodesic_miles(current_location, BankLocation(unvisited[i]))
        k == CHOOSE i \in DOMAIN unvisited :
                /\ \A j \in DOMAIN unvisited : dist(i) <= dist(j)
                /\ \A j \in 1..(i - 1) : dist(j) > dist(i)
    IN unvisited[k]

\* max(5, int(distance_miles / 25 * 60) + 5)
_calculate_travel_time(from_location, to_location) ==
    Max(5, ((geodesic_miles(from_location, to_location) * 60) \div 25) + 5)

_calculate_travel_time_to_bank(from_location, to_location) ==
    Max(5, ((geodesic_miles(from_location, to_location) * 60) \div 25) + 5)

\* max(15, int(10 + 2 * item_count + 0.5 * total_weight))
_estimate_pickup_duration(ds) ==
    Max(15, 10 + Len(ds) * 2 + (SumQuantity(ds) \div 2))

\* _estimate_delivery_duration without the unloading time
EstimateDeliveryNoUnloading(ds) ==
    Max(20, 15 + Len(ds) * 3 + ((SumQuantity(ds) * 4) \div 5))

\* max(20, int(15 + 3 * item_count + 0.8 * total_weight + 10))
_estimate_delivery_duration(ds) ==
    Max(20, 15 + Len(ds) * 3 + ((SumQuantity(ds) * 4) \div 5) + 10)

RECURSIVE PickupLoop(_, _, _, _, _)
\* while unvisited_stores: ...
PickupLoop(grouped, unvisited_stores, current_location, current_time, acc) ==
    IF unvisited_stores = <<>> THEN [raised |-> "no", value |-> acc]
    ELSE LET nearest_store == _find_nearest_store(current_location, unvisited_stores)
             travel_time == _calculate_travel_time(current_location,
                                                   StoreLocation(nearest_store))
             mine == grouped.lists[nearest_store]
             pickup_duration == _estimate_pickup_duration(mine)
             pickup_info == [ store |-> nearest_store,
                              donations |-> mine,
                              arrival_time |-> current_time + travel_time,
                              pickup_duration |-> pickup_duration,
                              total_weight |-> SumQuantity(mine) ]
         IN IF FloatProductRaises(mine)
            THEN [raised |-> "TypeError", value |-> acc]
            ELSE PickupLoop(grouped, Remove(unvisited_stores, nearest_store),
                            StoreLocation(nearest_store),
                            current_time + travel_time + pickup_duration,
                            Append(acc, pickup_info))

_optimize_pickup_sequence(store_donations) ==
    PickupLoop(store_donations, store_donations.keys, region.center,
               EightOClock(0) + MinutesPerDay, <<>>)

\* d.expiration_date or timezone.now().date() + timedelta(days=365)
ExpirationKey(d) == IF d.expiration_date # NULL THEN d.expiration_date ELSE 0 + 365

RECURSIVE SortedByKey(_)
\* sorted(donations, key=...): stable, ascending
SortedByKey(ds) ==
    IF ds = <<>> THEN <<>>
    ELSE LET last == ds[Len(ds)]
             front == SortedByKey(SubSeq(ds, 1, Len(ds) - 1))
             keep == SelectSeq(front, LAMBDA d : ExpirationKey(d) <= ExpirationKey(last))
             move == SelectSeq(front, LAMBDA d : ExpirationKey(d) > ExpirationKey(last))
         IN keep \o <<last>> \o move

RECURSIVE GCD(_, _)
GCD(a, b) == IF b = 0 THEN a ELSE GCD(b, a % b)

\* A float is the fraction num / den in lowest terms, den > 0
Fraction(n, d) ==
    LET g == GCD(IF n >= 0 THEN n ELSE 0 - n, d)
    IN [num |-> n \div g, den |-> d \div g]
Times(a, b) == Fraction(a.num * b.num, a.den * b.den)
ScoreGreater(a, b) == a.num * b.den > b.num * a.den

AllocationScoreNoBonus(donation, bank, current_weight, total_daily_need) ==
    Times(IF total_daily_need > 0
          THEN Fraction(bank.daily_average_need_pounds, total_daily_need)
          ELSE Fraction(0, 1),
          Fraction(bank.storage_capacity_pounds - current_weight,
                   bank.storage_capacity_pounds))

\* need_ratio * (1 - capacity_utilization), times 1.2 with the self-pickup bonus
AllocationScore(donation, bank, current_weight, total_daily_need) ==
    LET need_ratio == IF total_daily_need > 0
                      THEN Fraction(bank.daily_average_need_pounds, total_daily_need)
                      ELSE Fraction(0, 1)
        capacity_utilization == Fraction(current_weight, bank.storage_capacity_pounds)
        score == Times(need_ratio,
                       Fraction(capacity_utilization.den - capacity_utilization.num,
                                capacity_utilization.den))
    IN IF bank.can_self_pickup /\ donation.quantity_pounds > 50
       THEN Times(score, Fraction(12, 10))
       ELSE score

RECURSIVE BestBankIgnoringCapacity(_, _, _, _, _, _)
BestBankIgnoringCapacity(donation, banks, current_weights, total_daily_need, i, best) ==
    IF i > Len(banks) THEN best.bank
    ELSE LET score == AllocationScore(donation, banks[i], current_weights[i],
                                      total_daily_need)
         IN BestBankIgnoringCapacity(donation, banks, current_weights,
                total_daily_need, i + 1,
                IF ScoreGreater(score, best.score)
                THEN [bank |-> i, score |-> score] ELSE best)

FindBestBankIgnoringCapacity(donation, banks, current_weights, total_daily_need) ==
    BestBankIgnoringCapacity(donation, banks, current_weights, total_daily_need, 1,
                             [bank |-> NULL, score |-> Fraction(0 - 1, 1)])

RECURSIVE BestBankLoop(_, _, _, _, _, _)
\* for bank in food_banks: ...
BestBankLoop(donation, banks, current_weights, total_daily_need, i, best) ==
    IF i > Len(banks) THEN best.bank
    ELSE LET remaining_capacity == banks[i].storage_capacity_pounds - current_weights[i]
             score == AllocationScore(donation, banks[i], current_weights[i],
                                      total_daily_need)
         IN BestBankLoop(donation, banks, current_weights, total_daily_need, i + 1,
                IF remaining_capacity < donation.quantity_pounds THEN best
                ELSE IF ScoreGreater(score, best.score)
                     THEN [bank |-> i, score |-> score]
                     ELSE best)

FindBestBankFromZero(donation, banks, current_weights, total_daily_need) ==
    BestBankLoop(donation, banks, current_weights, total_daily_need, 1,
                 [bank |-> NULL, score |-> Fraction(0, 1)])

\* A bank is its position in food_banks; NULL is None
_find_best_bank_for_donation(donation, banks, current_weights, total_daily_need) ==
    BestBankLoop(donation, banks, current_weights, total_daily_need, 1,
                 [bank |-> NULL, score |-> Fraction(0 - 1, 1)])

RECURSIVE SumNeed(_)
SumNeed(banks) ==
    IF banks = <<>> THEN 0
    ELSE Head(banks).daily_average_need_pounds + SumNeed(Tail(banks))

\* One iteration of the loop over sorted_donations
AllocateOne(alloc, donation, banks) ==
    LET best_bank == _find_best_bank_for_donation(donation, banks, alloc.weight,
                                                  SumNeed(banks))
    IN IF best_bank # NULL
       THEN [ lists |-> [alloc.lists EXCEPT ![best_bank] = Append(@, donation)],
              weight |-> [alloc.weight EXCEPT
                            ![best_bank] = @ + donation.quantity_pounds] ]
       ELSE alloc

EmptyAllocation(banks) ==
    [ lists |-> [b \in DOMAIN banks |-> <<>>],
      weight |-> [b \in DOMAIN banks |-> 0] ]

RECURSIVE DeliveryLoop(_, _, _, _)
\* while unvisited_banks: ...
DeliveryLoop(banks_with_food, unvisited_banks, current_location, acc) ==
    IF unvisited_banks = <<>> THEN acc
    ELSE LET nearest_bank == _find_nearest_bank(current_location, unvisited_banks)
             mine == banks_with_food[nearest_bank]
             delivery_info ==
                 [ food_bank |-> nearest_bank,
                   donations |-> mine,
                   travel_time |-> _calculate_travel_time_to_bank(
                                       current_location, BankLocation(nearest_bank)),
                   delivery_duration |-> _estimate_delivery_duration(mine),
                   total_weight |-> SumQuantity(mine) ]
         IN DeliveryLoop(banks_with_food, Remove(unvisited_banks, nearest_bank),
                         BankLocation(nearest_bank), Append(acc, delivery_info))

DeliverySequenceAllBanks(food_allocation) ==
    DeliveryLoop(food_allocation, [b \in DOMAIN food_allocation |-> b],
                 region.center, <<>>)

\* food_allocation: bank -> donations, in the order of food_banks
_optimize_delivery_sequence(food_allocation) ==
    LET all == [b \in DOMAIN food_allocation |-> b]
        unvisited_banks == SelectSeq(all, LAMBDA b : food_allocation[b] # <<>>)
    IN DeliveryLoop(food_allocation, unvisited_banks, region.center, <<>>)

RECURSIVE SumSeq(_)
SumSeq(xs) == IF xs = <<>> THEN 0 ELSE Head(xs) + SumSeq(Tail(xs))

\* round() of the quotient n / d, d > 0, n >= 0
RoundHalfEven(n, d) ==
    LET q == n \div d
        r == n % d
    IN IF 2 * r < d THEN q
       ELSE IF 2 * r > d THEN q + 1
       ELSE IF q % 2 = 0 THEN q ELSE q + 1

\* The score in tenths of a point; truck_capacity_pounds = 0 divides by zero
_calculate_efficiency_score(pickups, deliveries) ==
    IF pickups = <<>> /\ deliveries = <<>> THEN [raised |-> "no", value |-> 0]
    ELSE IF region.truck_capacity_pounds = 0
    THEN [raised |-> "ZeroDivisionError", value |-> 0]
    ELSE
    LET total_stops == Len(pickups) + Len(deliveries)
        total_weight == SumSeq([i \in DOMAIN pickups |-> pickups[i].total_weight])
        total_duration ==
            SumSeq([i \in DOMAIN pickups |-> pickups[i].pickup_duration])
            + SumSeq([i \in DOMAIN deliveries |-> deliveries[i].delivery_duration])
        capacity == region.truck_capacity_pounds
        \* min(100, 1000 / max(1, total_stops * 5)) = dn / total_stops
        dn == Min(100 * total_stops, 1000 \div 5)
        \* min(100, total_weight / truck_capacity * 100) = cn / capacity
        cn == Min(100 * capacity, total_weight * 100)
        \* min(100, total_duration / (4 * 60) * 100) = tn / 12
        tn == Min(100 * 12, total_duration * 5)
        \* ten times distance_score * 0.3 + capacity_score * 0.4 + time_score * 0.3
        den == total_stops * capacity * 12
        num == 3 * dn * capacity * 12
               + 4 * cn * total_stops * 12
               + 3 * tn * total_stops * capacity
    IN [raised |-> "no", value |-> RoundHalfEven(num, den)]

WithinCapacityStrict(total_weight) == total_weight < region.truck_capacity_pounds

\* total_weight <= self.truck_capacity
WithinCapacity(total_weight) == total_weight <= region.truck_capacity_pounds

\* total_duration <= (self.max_duration_hours * 60)
WithinTimeLimit(total_duration) == total_duration <= 4 * 60

_create_route_plan(pickups, deliveries, date) ==
    LET start == EightOClock(date)
        pickup_durations == [i \in DOMAIN pickups |-> pickups[i].pickup_duration]
        delivery_minutes == [i \in DOMAIN deliveries |->
                                deliveries[i].travel_time
                                + deliveries[i].delivery_duration]
        after_pickups == start + SumSeq(pickup_durations)
        total_duration == SumSeq(pickup_durations) + SumSeq(delivery_minutes)
        total_weight == SumSeq([i \in DOMAIN pickups |-> pickups[i].total_weight])
        score == _calculate_efficiency_score(pickups, deliveries)
    IN [ raised |-> score.raised,
         target_date |-> date,
         pickup_sequence |->
            [i \in DOMAIN pickups |->
                [ store |-> pickups[i].store,
                  donations |-> pickups[i].donations,
                  arrival_time |-> pickups[i].arrival_time,
                  pickup_duration |-> pickups[i].pickup_duration,
                  total_weight |-> pickups[i].total_weight,
                  estimated_arrival |->
                      start + SumSeq(SubSeq(pickup_durations, 1, i - 1)) ]],
         delivery_sequence |->
            [i \in DOMAIN deliveries |->
                [ food_bank |-> deliveries[i].food_bank,
                  donations |-> deliveries[i].donations,
                  travel_time |-> deliveries[i].travel_time,
                  delivery_duration |-> deliveries[i].delivery_duration,
                  total_weight |-> deliveries[i].total_weight,
                  estimated_arrival |->
                      after_pickups + SumSeq(SubSeq(delivery_minutes, 1, i - 1))
                      + deliveries[i].travel_time ]],
         total_weight_pounds |-> total_weight,
         total_duration_minutes |-> total_duration,
         estimated_completion_time |-> start + total_duration,
         within_capacity |-> WithinCapacity(total_weight),
         within_time_limit |-> WithinTimeLimit(total_duration),
         efficiency_score |-> score.value ]

-----------------------------------------------------------------------------
(* optimize_route, one statement of its body at a time, and the loop of    *)
(* _allocate_food_to_banks one donation at a time                          *)

Weights == {20, 150}
Expirations == {NULL, 1, 10}
\* FoodDonation.expiration_date and sell_by_date of one donation
NoDates == [expiration_date |-> NULL, sell_by_date |-> NULL]
DonationDates ==
    {[expiration_date |-> e, sell_by_date |-> NULL] : e \in Expirations}
    \cup {[expiration_date |-> NULL, sell_by_date |-> 1]}
Needs == {0, 100, 500}
Capacities == {160, 1000}
Centers == {0, 3}
TruckCapacities == {0, 150}
TargetDates == {NULL, 2}
QuantityTypes == {"float", "Decimal"}

SeqsUpTo(S, n) == UNION {[1..k -> S] : k \in 0..n}

\* FoodDonation rows; the id is the position in the list
DonationLists(stores, kinds) ==
    { [i \in DOMAIN rows |->
          [ id |-> i,
            grocery_store |-> rows[i].grocery_store,
            quantity_pounds |-> rows[i].kind.quantity_pounds,
            expiration_date |-> rows[i].kind.dates.expiration_date,
            sell_by_date |-> rows[i].kind.dates.sell_by_date ]] :
      rows \in SeqsUpTo([grocery_store : stores, kind : kinds], MaxDonations) }

\* FoodBank rows
BankLists(needs, capacities, self_pickup) ==
    SeqsUpTo([daily_average_need_pounds : needs,
              storage_capacity_pounds : capacities,
              can_self_pickup : self_pickup], MaxBanks)

\* The inputs of the optimize_route calls and of the allocation calls
PlanBankLists == BankLists(Needs \ {0}, Capacities, {FALSE})
PlanDonationLists ==
    DonationLists(Stores, [quantity_pounds : Weights, dates : {NoDates}])
AllocBankLists == BankLists(Needs, {160}, BOOLEAN)
\* The allocation also meets a donation larger than every bank
AllocDonationLists ==
    DonationLists({1}, [quantity_pounds : Weights, dates : DonationDates]
                       \cup {[quantity_pounds |-> 200, dates |-> NoDates]})

\* No route has been materialized
WorkflowIdle ==
    /\ stops = <<>>
    /\ notifications = <<>>
    /\ now = 1
    /\ result = NoResult
    /\ calls = 0
    /\ ConcIdle

\* optimize_route(donations, target_date) is called
InitPlan ==
    /\ WorkflowIdle
    /\ region \in [center : Centers, truck_capacity_pounds : TruckCapacities]
    /\ food_banks \in PlanBankLists
    /\ donations \in PlanDonationLists
    /\ quantity_type \in QuantityTypes
    /\ target_date \in TargetDates
    /\ opt_pc = "called"
    /\ pickup_sequence = <<>>
    /\ sorted_donations = <<>>
    /\ bank_allocation = <<>>
    /\ bank_current_weight = <<>>
    /\ delivery_sequence = <<>>
    /\ route_plan = NULL

\* target_date default, _group_donations_by_store, _optimize_pickup_sequence
OptimizePickupSequence ==
    /\ opt_pc = "called"
    /\ target_date' = IF target_date = NULL THEN Tomorrow ELSE target_date
    /\ LET r == _optimize_pickup_sequence(_group_donations_by_store(donations))
       IN /\ pickup_sequence' = r.value
          /\ opt_pc' = IF r.raised = "no" THEN "allocate" ELSE "raised"
          /\ route_plan' = IF r.raised = "no" THEN route_plan
                           ELSE [raised |-> r.raised]
    /\ UNCHANGED <<region, food_banks, donations, quantity_type, sorted_donations,
                   bank_allocation, bank_current_weight, delivery_sequence>>
    /\ UNCHANGED workflowVars

\* _allocate_food_to_banks up to its loop
AllocateBegin ==
    /\ opt_pc = "allocate"
    /\ IF food_banks = <<>>
       THEN /\ opt_pc' = "deliver"
            /\ UNCHANGED <<sorted_donations, bank_allocation, bank_current_weight>>
       ELSE /\ opt_pc' = "allocating"
            /\ sorted_donations' = SortedByKey(donations)
            /\ bank_allocation' = EmptyAllocation(food_banks).lists
            /\ bank_current_weight' = EmptyAllocation(food_banks).weight
    /\ UNCHANGED <<region, food_banks, donations, quantity_type, target_date,
                   pickup_sequence, delivery_sequence, route_plan>>
    /\ UNCHANGED workflowVars

\* for donation in sorted_donations: one iteration
AllocateDonation ==
    /\ opt_pc = "allocating"
    /\ sorted_donations # <<>>
    /\ LET alloc == AllocateOne([lists |-> bank_allocation,
                                 weight |-> bank_current_weight],
                                Head(sorted_donations), food_banks)
       IN /\ bank_allocation' = alloc.lists
          /\ bank_current_weight' = alloc.weight
    /\ sorted_donations' = Tail(sorted_donations)
    /\ UNCHANGED <<region, food_banks, donations, quantity_type, target_date,
                   opt_pc, pickup_sequence, delivery_sequence, route_plan>>
    /\ UNCHANGED workflowVars

\* return bank_allocation
AllocateReturn ==
    /\ opt_pc = "allocating"
    /\ sorted_donations = <<>>
    /\ opt_pc' = "deliver"
    /\ UNCHANGED <<region, food_banks, donations, quantity_type, target_date,
                   pickup_sequence, sorted_donations, bank_allocation,
                   bank_current_weight, delivery_sequence, route_plan>>
    /\ UNCHANGED workflowVars

OptimizeDeliverySequence ==
    /\ opt_pc = "deliver"
    /\ delivery_sequence' = _optimize_delivery_sequence(bank_allocation)
    /\ opt_pc' = "plan"
    /\ UNCHANGED <<region, food_banks, donations, quantity_type, target_date,
                   pickup_sequence, sorted_donations, bank_allocation,
                   bank_current_weight, route_plan>>
    /\ UNCHANGED workflowVars

\* _create_route_plan, and optimize_route returns its value
CreateRoutePlan ==
    /\ opt_pc = "plan"
    /\ LET r == _create_route_plan(pickup_sequence, delivery_sequence, target_date)
       IN /\ route_plan' = IF r.raised = "no" THEN r ELSE [raised |-> r.raised]
          /\ opt_pc' = IF r.raised = "no" THEN "returned" ELSE "raised"
    /\ UNCHANGED <<region, food_banks, donations, quantity_type, target_date,
                   pickup_sequence, sorted_donations, bank_allocation,
                   bank_current_weight, delivery_sequence>>
    /\ UNCHANGED workflowVars

\* datetime.time(): the time of day, in minutes
TimeOfDay(datetime) == datetime % MinutesPerDay

\* create_delivery_route with stop_order set to 1 again before the deliveries
MaterializedStopsRestarting(plan, route_id) ==
    LET pickups == plan.pickup_sequence
        deliveries == plan.delivery_sequence
    IN [ k \in 1..(Len(pickups) + Len(deliveries)) |->
           IF k <= Len(pickups)
           THEN [ route |-> route_id,
                  stop_order |-> k,
                  stop_type |-> "pickup",
                  grocery_store |-> pickups[k].store,
                  food_bank |-> NULL,
                  estimated_arrival_time |-> TimeOfDay(pickups[k].arrival_time),
                  estimated_duration_minutes |-> pickups[k].pickup_duration,
                  donations |-> pickups[k].donations,
                  is_confirmed |-> FALSE,
                  confirmed_at |-> NULL,
                  notes |-> <<>> ]
           ELSE LET delivery == deliveries[k - Len(pickups)]
                IN [ route |-> route_id,
                     stop_order |-> k - Len(pickups),
                     stop_type |-> "delivery",
                     grocery_store |-> NULL,
                     food_bank |-> delivery.food_bank,
                     estimated_arrival_time |-> TimeOfDay(delivery.estimated_arrival),
                     estimated_duration_minutes |-> delivery.delivery_duration,
                     donations |-> delivery.donations,
                     is_confirmed |-> FALSE,
                     confirmed_at |-> NULL,
                     notes |-> <<>> ] ]

\* The RouteStop rows create_delivery_route creates for a plan, in
\* stop_order; the row ids are the stop_order values
MaterializedStops(plan, route_id) ==
    LET pickups == plan.pickup_sequence
        deliveries == plan.delivery_sequence
    IN [ k \in 1..(Len(pickups) + Len(deliveries)) |->
           IF k <= Len(pickups)
           THEN [ route |-> route_id,
                  stop_order |-> k,
                  stop_type |-> "pickup",
                  grocery_store |-> pickups[k].store,
                  food_bank |-> NULL,
                  estimated_arrival_time |-> TimeOfDay(pickups[k].arrival_time),
                  estimated_duration_minutes |-> pickups[k].pickup_duration,
                  donations |-> pickups[k].donations,
                  is_confirmed |-> FALSE,
                  confirmed_at |-> NULL,
                  notes |-> <<>> ]
           ELSE LET delivery == deliveries[k - Len(pickups)]
                IN [ route |-> route_id,
                     stop_order |-> k,
                     stop_type |-> "delivery",
                     grocery_store |-> NULL,
                     food_bank |-> delivery.food_bank,
                     estimated_arrival_time |-> TimeOfDay(delivery.estimated_arrival),
                     estimated_duration_minutes |-> delivery.delivery_duration,
                     donations |-> delivery.donations,
                     is_confirmed |-> FALSE,
                     confirmed_at |-> NULL,
                     notes |-> <<>> ] ]

\* create_delivery_route(route_plan, driver_team, truck_identifier) on the
\* plan optimize_route returned; the route is the first of the table
CreateDeliveryRoute ==
    /\ opt_pc = "returned"
    /\ opt_pc' = "materialized"
    /\ stops' = MaterializedStops(route_plan, 1)
    /\ result' = [ op |-> "create_delivery_route",
                   route |-> [ id |-> 1,
                               scheduled_date |-> route_plan.target_date,
                               start_time |-> TimeOfDay(EightOClock(0)),
                               end_time |-> TimeOfDay(route_plan.estimated_completion_time),
                               total_distance_miles |-> 0,
                               estimated_duration_minutes |->
                                   route_plan.total_duration_minutes ] ]
    /\ UNCHANGED <<notifications, now, calls, pc, req, local>>
    /\ UNCHANGED <<region, food_banks, donations, quantity_type, target_date,
                   pickup_sequence, sorted_donations, bank_allocation,
                   bank_current_weight, delivery_sequence, route_plan>>

NextPlan ==
    \/ OptimizePickupSequence
    \/ AllocateBegin
    \/ AllocateDonation
    \/ AllocateReturn
    \/ OptimizeDeliverySequence
    \/ CreateRoutePlan
    \/ CreateDeliveryRoute

SpecPlan == InitPlan /\ [][NextPlan]_vars

\* The view optimize_route(request, region_id) of views.py, on a POST

FeasibleCapacityOnly(plan) == plan.within_capacity

\* route_plan['within_capacity'] and route_plan['within_time_limit']
Feasible(plan) == plan.within_capacity /\ plan.within_time_limit

ViewBankLists == BankLists({100}, Capacities, {FALSE})

\* The region, its active banks and its confirmed donations as the view
\* reads them; the view passes no target_date
InitView ==
    /\ WorkflowIdle
    /\ region \in [center : {0}, truck_capacity_pounds : TruckCapacities]
    /\ food_banks \in ViewBankLists
    /\ donations \in PlanDonationLists
    /\ quantity_type \in QuantityTypes
    /\ target_date = NULL
    /\ opt_pc = "posted"
    /\ pickup_sequence = <<>>
    /\ sorted_donations = <<>>
    /\ bank_allocation = <<>>
    /\ bank_current_weight = <<>>
    /\ delivery_sequence = <<>>
    /\ route_plan = NULL

\* if not confirmed_donations: warning and redirect; else optimize_route
ViewPost ==
    /\ opt_pc = "posted"
    /\ opt_pc' = IF donations = <<>> THEN "route_planning" ELSE "called"
    /\ UNCHANGED <<region, food_banks, donations, quantity_type, target_date,
                   pickup_sequence, sorted_donations, bank_allocation,
                   bank_current_weight, delivery_sequence, route_plan>>
    /\ UNCHANGED workflowVars

\* the feasible branch: optimizer.create_delivery_route(route_plan, ...)
ViewCreateRoute ==
    /\ opt_pc = "returned"
    /\ Feasible(route_plan)
    /\ CreateDeliveryRoute

\* the else branch: messages.error and the redirect to route_planning
ViewRefuse ==
    /\ opt_pc = "returned"
    /\ ~Feasible(route_plan)
    /\ opt_pc' = "route_planning"
    /\ UNCHANGED <<region, food_banks, donations, quantity_type, target_date,
                   pickup_sequence, sorted_donations, bank_allocation,
                   bank_current_weight, delivery_sequence, route_plan>>
    /\ UNCHANGED workflowVars

\* One batch sender called by the view on the route it created
ViewSend(sender, from, to) ==
    /\ opt_pc = from
    /\ opt_pc' = to
    /\ \E outcomes \in [SenderStops(sender, stops, result.route.id) -> Outcomes] :
          LET r == BatchSend(sender, [n |-> notifications, t |-> now],
                             stops, result.route.id, outcomes)
          IN /\ notifications' = r.n
             /\ now' = r.t
    /\ UNCHANGED <<stops, result, calls, pc, req, local>>
    /\ UNCHANGED <<region, food_banks, donations, quantity_type, target_date,
                   pickup_sequence, sorted_donations, bank_allocation,
                   bank_current_weight, delivery_sequence, route_plan>>

\* confirmation_service.send_pickup_confirmations(route)
ViewSendPickups == ViewSend("send_pickup_confirmations", "materialized", "pickups_sent")

\* confirmation_service.send_delivery_confirmations(route), then the redirect
\* to route_detail
ViewSendDeliveries ==
    ViewSend("send_delivery_confirmations", "pickups_sent", "route_detail")

NextView ==
    \/ ViewPost
    \/ OptimizePickupSequence
    \/ AllocateBegin
    \/ AllocateDonation
    \/ AllocateReturn
    \/ OptimizeDeliverySequence
    \/ CreateRoutePlan
    \/ ViewCreateRoute
    \/ ViewRefuse
    \/ ViewSendPickups
    \/ ViewSendDeliveries

SpecView == InitView /\ [][NextView]_vars

\* The duration estimators called on a list of donations, the empty list
\* included

EstimateDonationLists ==
    DonationLists(Stores, [quantity_pounds : {1, 20, 150}, dates : {NoDates}])

InitEstimate ==
    /\ WorkflowIdle
    /\ region = [center |-> 0, truck_capacity_pounds |-> 150]
    /\ food_banks = <<>>
    /\ donations \in EstimateDonationLists
    /\ quantity_type \in QuantityTypes
    /\ target_date = NULL
    /\ opt_pc = "estimate"
    /\ pickup_sequence = <<>>
    /\ sorted_donations = <<>>
    /\ bank_allocation = <<>>
    /\ bank_current_weight = <<>>
    /\ delivery_sequence = <<>>
    /\ route_plan = NULL

\* An estimator returns its value, or raises on Decimal * float
Estimated(name, value) ==
    /\ opt_pc = "estimate"
    /\ opt_pc' = IF FloatProductRaises(donations) THEN "raised" ELSE "estimated"
    /\ result' = IF FloatProductRaises(donations)
                 THEN [op |-> name, raised |-> "TypeError", value |-> NULL]
                 ELSE [op |-> name, raised |-> "no", value |-> value]
    /\ UNCHANGED <<stops, notifications, now, calls, pc, req, local>>
    /\ UNCHANGED <<region, food_banks, donations, quantity_type, target_date,
                   pickup_sequence, sorted_donations, bank_allocation,
                   bank_current_weight, delivery_sequence, route_plan>>

EstimatePickupDuration ==
    Estimated("_estimate_pickup_duration", _estimate_pickup_duration(donations))

EstimateDeliveryDuration ==
    Estimated("_estimate_delivery_duration", _estimate_delivery_duration(donations))

NextEstimate ==
    \/ EstimatePickupDuration
    \/ EstimateDeliveryDuration

SpecEstimate == InitEstimate /\ [][NextEstimate]_vars

\* optimize_route is called with a donation of weight 0, which the model
\* field admits until full_clean() runs its MinValueValidator(0.1)
InvalidDonationLists ==
    { ds \in DonationLists(Stores, [quantity_pounds : {0, 20}, dates : {NoDates}]) :
        \E i \in DOMAIN ds : ds[i].quantity_pounds <= 0 }

InitInvalid ==
    /\ WorkflowIdle
    /\ region \in [center : Centers, truck_capacity_pounds : TruckCapacities]
    /\ food_banks \in PlanBankLists
    /\ donations \in InvalidDonationLists
    /\ quantity_type \in QuantityTypes
    /\ target_date \in TargetDates
    /\ opt_pc = "called"
    /\ pickup_sequence = <<>>
    /\ sorted_donations = <<>>
    /\ bank_allocation = <<>>
    /\ bank_current_weight = <<>>
    /\ delivery_sequence = <<>>
    /\ route_plan = NULL

SpecInvalid == InitInvalid /\ [][NextPlan]_vars

\* _allocate_food_to_banks(donations, food_banks) is called by optimize_route:
\* the pickup sequence has been computed, so the weights are floats
InitAlloc ==
    /\ WorkflowIdle
    /\ region = [center |-> 0, truck_capacity_pounds |-> 150]
    /\ food_banks \in AllocBankLists
    /\ donations \in AllocDonationLists
    /\ quantity_type = "float"
    /\ target_date = Tomorrow
    /\ opt_pc = "allocate"
    /\ pickup_sequence = _optimize_pickup_sequence(_group_donations_by_store(donations)).value
    /\ sorted_donations = <<>>
    /\ bank_allocation = <<>>
    /\ bank_current_weight = <<>>
    /\ delivery_sequence = <<>>
    /\ route_plan = NULL

NextAlloc ==
    \/ AllocateBegin
    \/ AllocateDonation
    \/ AllocateReturn

SpecAlloc == InitAlloc /\ [][NextAlloc]_vars

-----------------------------------------------------------------------------
(* Properties of the confirmation workflow *)

\* "contains <pat> in any letter case"
ContainsAnyCase(txt, pat) == Contains(Lower(txt), pat)
ConfirmingTexts == {txt \in Texts : ContainsAnyCase(txt, STR_confirmed)}
OtherTexts == Texts \ ConfirmingTexts

AllStopsConfirmed(route) ==
    \A s \in StopIds : stops[s].route = route => stops[s].is_confirmed

\* C3: in every reachable state the readiness query of a route reports
\* ready_for_execution = TRUE exactly when every stop of the route is confirmed,
\* which is exactly when its pending count is 0; the value the last readiness
\* call returned agrees with the stops it was computed from.
C3_ReadyIffAllConfirmed ==
    /\ \A route \in Routes :
          LET status == check_pending_confirmations(stops, route)
          IN /\ status.ready_for_execution = AllStopsConfirmed(route)
             /\ status.ready_for_execution = (status.pending_stops = 0)
    /\ result.op = "check_pending_confirmations"
          => result.ready_for_execution = AllStopsConfirmed(result.route_id)

\* A readiness call has reported a route with stops as ready
C3_Witness ==
    /\ result.op = "check_pending_confirmations"
    /\ result.total_stops > 0
    /\ result.ready_for_execution

\* The sent notifications of a stop, and the most recently created of them
SentOf(s) == {i \in 1..Len(notifications) :
                 notifications[i].route_stop = s /\ notifications[i].is_sent}
IsMostRecent(i, S) ==
    i \in S /\ \A j \in S : notifications[j].created_at <= notifications[i].created_at

\* C4: a response containing "confirmed" in any letter case, for an existing
\* stop, sets that stop's is_confirmed and sets confirmed_at to the current
\* time, marks as responded the most recently created sent notification of the
\* stop (none when it has no sent notification), and changes no other stop, no
\* other field of the stop and no other notification.
C4_ConfirmedResponse ==
    [][ \A s \in StopIds, txt \in ConfirmingTexts :
          ProcessEmailResponse(s, txt) =>
            /\ stops' = [stops EXCEPT ![s].is_confirmed = TRUE,
                                      ![s].confirmed_at = now]
            /\ Len(notifications') = Len(notifications)
            /\ \A i \in 1..Len(notifications) :
                  IF IsMostRecent(i, SentOf(s))
                  THEN notifications'[i] =
                          [notifications[i] EXCEPT !.response_received = TRUE,
                                                   !.response_content = txt]
                  ELSE notifications'[i] = notifications[i]
            /\ result'.processed /\ result'.action = "confirmed" ]_vars

\* A stop with two sent notifications was confirmed: the newer notification
\* carries the response
C4_Witness ==
    \E i, j \in 1..Len(notifications) :
        /\ i < j
        /\ notifications[i].route_stop = notifications[j].route_stop
        /\ notifications[i].is_sent /\ notifications[j].is_sent
        /\ ~notifications[i].response_received
        /\ notifications[j].response_received
        /\ stops[notifications[j].route_stop].is_confirmed
        /\ result.op = "process_email_response"

IsPrefix(a, b) == Len(a) <= Len(b) /\ SubSeq(b, 1, Len(a)) = a
IsSuffix(a, b) == Len(a) <= Len(b) /\ SubSeq(b, Len(b) - Len(a) + 1, Len(b)) = a

\* the annotation the response text calls for
Annotation(txt) ==
    IF ContainsAnyCase(txt, STR_reschedule)
    THEN STR_RescheduleRequested \o txt
    ELSE STR_ResponseReceived \o txt

\* C5: a response that does not contain "confirmed", for an existing stop,
\* leaves is_confirmed and confirmed_at unchanged and appends its annotation
\* to the stop's notes: the notes recorded before are still there, followed
\* by the new annotation.
C5_NotesAppended ==
    [][ \A s \in StopIds, txt \in OtherTexts :
          ProcessEmailResponse(s, txt) =>
            /\ stops'[s].is_confirmed = stops[s].is_confirmed
            /\ stops'[s].confirmed_at = stops[s].confirmed_at
            /\ IsPrefix(stops[s].notes, stops'[s].notes)
            /\ IsSuffix(Annotation(txt), stops'[s].notes) ]_vars

\* C6: a response for a stop id that names no stop returns the not-found
\* outcome (processed = FALSE, no action), whatever the text, and changes no
\* stop and no notification.
C6_UnknownStop ==
    [][ \A txt \in Texts :
          ProcessEmailResponse(UnknownStopId, txt) =>
            /\ result'.op = "process_email_response"
            /\ result'.stop_id = UnknownStopId
            /\ ~result'.processed
            /\ result'.action = "None"
            /\ result'.message = "Route stop not found"
            /\ stops' = stops
            /\ notifications' = notifications ]_vars

\* A response for the unknown id was answered while a sent notification
\* was waiting for a response
C6_Witness ==
    /\ result.op = "process_email_response"
    /\ result.stop_id = UnknownStopId
    /\ ~result.processed
    /\ \E i \in 1..Len(notifications) :
          notifications[i].is_sent /\ ~notifications[i].response_received

\* C7: a batch sender attempts one send for every stop of its subset whatever
\* the other sends' outcomes (each attempt leaves one notification row, sent
\* or not by its own outcome), and returns sent + failed = total, total being
\* the size of the subset and failed the number of stops whose send failed.
C7_BatchCounts ==
    result.op \in Senders =>
        LET S == SenderStops(result.op, stops, result.route)
            new == (result.before + 1)..Len(notifications)
        IN /\ result.total = Cardinality(S)
           /\ result.sent + result.failed = result.total
           /\ result.failed = Cardinality({s \in S : result.outcomes[s] = "fail"})
           /\ Len(notifications) = result.before + Cardinality(S)
           /\ \A s \in S :
                 \E i \in new :
                    /\ notifications[i].route_stop = s
                    /\ notifications[i].is_sent = (result.outcomes[s] = "ok")

\* A pickup batch whose first send failed and whose second send succeeded
C7_Witness ==
    /\ result.op = "send_pickup_confirmations"
    /\ result.sent = 1 /\ result.failed = 1
    /\ \E s1, s2 \in DOMAIN result.outcomes :
          s1 < s2 /\ result.outcomes[s1] = "fail" /\ result.outcomes[s2] = "ok"

SerialOutcome(p, q) ==
    LET s == req[p].stop_id
        first == process_email_response([x \in StopIds |-> NewStop(x)],
                                        SentRequest(s).n, SentRequest(s).t,
                                        s, req[p].response_content)
    IN process_email_response(first.stops, first.n, first.t,
                              s, req[q].response_content)

\* C2: when two responses for one stop are processed concurrently no update
\* is lost: once both requests have completed, the stop and the
\* notifications are what running the two one after the other, in one of
\* the two orders, leaves; so a response containing "confirmed" leaves the
\* stop confirmed.
C2_NoLostUpdate ==
    (\A p \in Procs : pc[p] = "done") =>
        /\ \E p, q \in Procs :
              /\ p # q
              /\ stops = SerialOutcome(p, q).stops
              /\ notifications = SerialOutcome(p, q).n
        /\ (\E p \in Procs : req[p].response_content \in ConfirmingTexts)
              => stops[req[1].stop_id].is_confirmed

-----------------------------------------------------------------------------
(* Responses served one at a time by one worker, statement by statement,   *)
(* with confirmation requests sent in between.  A response that has been   *)
(* received is processed to its end: the worker's steps are weakly fair.   *)

Worker == 1

\* The tables of the handshake; the worker holds no request
InitLive ==
    /\ stops = [s \in StopIds |-> NewStop(s)]
    /\ notifications = <<>>
    /\ now = 1
    /\ result = NoResult
    /\ calls = 0
    /\ pc = [p \in Procs |-> "idle"]
    /\ req = [p \in Procs |-> [stop_id |-> NULL, response_content |-> <<>>]]
    /\ local = [p \in Procs |-> [stop |-> NULL, idx |-> 0, notification |-> NULL]]
    /\ PlanIdle

WorkerFree == pc[Worker] \in {"idle", "done"}

\* A response arrives while no other is being processed
ReceiveResponse(stop_id, response_content) ==
    /\ WorkerFree
    /\ MoreCalls
    /\ calls' = calls + 1
    /\ req' = [req EXCEPT ![Worker] = [stop_id |-> stop_id,
                                       response_content |-> response_content]]
    /\ local' = [local EXCEPT ![Worker] = [stop |-> NULL, idx |-> 0,
                                           notification |-> NULL]]
    /\ pc' = [pc EXCEPT ![Worker] = "get"]
    /\ UNCHANGED <<stops, notifications, now, result>>
    /\ UNCHANGED planVars

\* RouteStop.objects.get(id=stop_id) raises DoesNotExist: the except branch
\* returns 'Route stop not found'
StopNotFound ==
    /\ pc[Worker] = "get"
    /\ req[Worker].stop_id \notin DOMAIN stops
    /\ pc' = [pc EXCEPT ![Worker] = "done"]
    /\ result' = NotFoundResult(req[Worker].stop_id)
    /\ UNCHANGED <<stops, notifications, now, calls, req, local>>
    /\ UNCHANGED planVars

WorkerGetStop == req[Worker].stop_id \in DOMAIN stops /\ GetStop(Worker)
WorkerSaveStop == SaveStop(Worker)
WorkerFindNotification == FindNotification(Worker)
WorkerSaveNotification == SaveNotification(Worker)

\* A confirmation request is sent, or fails to be sent, between two responses
RequestBetween(s, outcome) ==
    WorkerFree /\ MoreCalls /\ RequestConfirmation(s, outcome)

WorkerStep ==
    \/ StopNotFound
    \/ WorkerGetStop
    \/ WorkerSaveStop
    \/ WorkerFindNotification
    \/ WorkerSaveNotification

NextLive ==
    \/ \E stop_id \in StopIds \cup {UnknownStopId}, txt \in Texts :
          ReceiveResponse(stop_id, txt)
    \/ \E s \in StopIds, outcome \in Outcomes : RequestBetween(s, outcome)
    \/ StopNotFound
    \/ WorkerGetStop
    \/ WorkerSaveStop
    \/ WorkerFindNotification
    \/ WorkerSaveNotification

SpecLive == InitLive /\ [][NextLive]_vars /\ WF_vars(WorkerStep)

-----------------------------------------------------------------------------
(* Properties of route planning *)

\* How many times a donation stands in the banks' lists
Occurrences(id) ==
    SumSeq([b \in DOMAIN bank_allocation |->
               Len(SelectSeq(bank_allocation[b], LAMBDA d : d.id = id))])

Unallocated == {i \in DOMAIN donations : Occurrences(i) = 0}

\* C1: with a positive total daily need, at the end of the allocation and
\* after each assignment every donation stands in at most one bank's list,
\* at most once, and the weights of the donations allocated to a bank sum to
\* at most the bank's storage capacity.
C1_AllocationSafe ==
    SumNeed(food_banks) > 0 =>
        /\ \A i \in DOMAIN donations : Occurrences(i) <= 1
        /\ \A b \in DOMAIN bank_allocation :
              SumQuantity(bank_allocation[b]) <= food_banks[b].storage_capacity_pounds

\* An allocation has ended in which a donation was allocated and another
\* found no bank with room for it
C1_Witness ==
    /\ opt_pc = "deliver"
    /\ SumNeed(food_banks) > 0
    /\ Unallocated # {}
    /\ \E b \in DOMAIN bank_allocation :
          /\ bank_allocation[b] # <<>>
          /\ \E i \in Unallocated :
                SumQuantity(bank_allocation[b]) + donations[i].quantity_pounds
                    > food_banks[b].storage_capacity_pounds

\* C9: in every plan returned, within_capacity is true exactly when the
\* total weight is at most the truck capacity, and within_time_limit exactly
\* when the total duration is at most 240 minutes; the boundary values are
\* feasible.
C9_FeasibilityFlags ==
    opt_pc = "returned" =>
        /\ route_plan.within_capacity
              <=> (route_plan.total_weight_pounds <= region.truck_capacity_pounds)
        /\ route_plan.within_time_limit
              <=> (route_plan.total_duration_minutes <= 240)

\* A plan is returned whose weight is the truck capacity and whose duration
\* is 240 minutes
C9_Witness ==
    /\ opt_pc = "returned"
    /\ route_plan.total_weight_pounds = region.truck_capacity_pounds
    /\ route_plan.total_duration_minutes = 240
    /\ route_plan.within_capacity
    /\ route_plan.within_time_limit

\* Minutes driven to each pickup stop, by the clock of the pickup sequence:
\* from 08:00 to the first arrival, then from the end of a pickup to the next
PickupTravelTimes(pickups) ==
    [i \in DOMAIN pickups |->
        pickups[i].arrival_time
        - (IF i = 1 THEN EightOClock(Tomorrow)
           ELSE pickups[i - 1].arrival_time + pickups[i - 1].pickup_duration)]

\* C10: the total duration of a plan is the sum of the dwell durations of
\* all pickup and delivery stops plus the travel times of all legs: depot to
\* first pickup, between pickups, and to and between the deliveries.
C10_TotalDuration ==
    opt_pc = "returned" =>
        route_plan.total_duration_minutes =
            SumSeq([i \in DOMAIN route_plan.pickup_sequence |->
                       route_plan.pickup_sequence[i].pickup_duration])
            + SumSeq(PickupTravelTimes(route_plan.pickup_sequence))
            + SumSeq([i \in DOMAIN route_plan.delivery_sequence |->
                       route_plan.delivery_sequence[i].delivery_duration])
            + SumSeq([i \in DOMAIN route_plan.delivery_sequence |->
                       route_plan.delivery_sequence[i].travel_time])

\* The pickup sequence has been computed
PickupsPlanned == opt_pc \in {"allocate", "allocating", "deliver", "plan", "returned"}
\* The delivery sequence has been computed
DeliveriesPlanned == opt_pc \in {"plan", "returned"}

\* C11: the pickup sequence holds every store that owns an input donation
\* exactly once and no other store; the delivery sequence holds every bank
\* that received a donation exactly once and no bank with an empty
\* allocation; no donation gives an empty pickup sequence and no allocated
\* donation an empty delivery sequence.
C11_Permutation ==
    /\ PickupsPlanned =>
          LET visited == {pickup_sequence[i].store : i \in DOMAIN pickup_sequence}
          IN /\ visited = {donations[i].grocery_store : i \in DOMAIN donations}
             /\ Cardinality(visited) = Len(pickup_sequence)
             /\ donations = <<>> => pickup_sequence = <<>>
    /\ DeliveriesPlanned =>
          LET visited == {delivery_sequence[i].food_bank : i \in DOMAIN delivery_sequence}
          IN /\ visited = {b \in DOMAIN bank_allocation : bank_allocation[b] # <<>>}
             /\ Cardinality(visited) = Len(delivery_sequence)

\* Two stores were sequenced in another order than their donations came in,
\* and of two banks only the one that received food is a delivery stop
C11_Witness ==
    /\ opt_pc = "returned"
    /\ Len(pickup_sequence) = 2
    /\ pickup_sequence[1].store # donations[1].grocery_store
    /\ Len(food_banks) = 2
    /\ Len(delivery_sequence) = 1

\* C12: taking the materialized stops of a plan in stop_order (pickups, then
\* deliveries), no stop's estimated arrival time is earlier than that of the
\* stop before it, the first delivery after the last pickup included.
C12_ArrivalsNonDecreasing ==
    opt_pc = "materialized" =>
        \A k \in 1..(Len(stops) - 1) :
            stops[k].estimated_arrival_time <= stops[k + 1].estimated_arrival_time

\* Position of a store in input order: its first donation
FirstDonation(store) ==
    CHOOSE i \in DOMAIN donations :
        /\ donations[i].grocery_store = store
        /\ \A j \in 1..(i - 1) : donations[j].grocery_store # store

\* step k of a sequence over locations loc[1..n] from the depot: the k-th
\* location is nearest to the current position among those not yet visited,
\* and comes first in input order among the nearest
NearestFirst(loc, order, k) ==
    LET current == IF k = 1 THEN region.center ELSE loc[k - 1]
    IN \A j \in k..Len(loc) :
          /\ geodesic_miles(current, loc[k]) <= geodesic_miles(current, loc[j])
          /\ (j # k /\ geodesic_miles(current, loc[k]) = geodesic_miles(current, loc[j]))
                => order[k] < order[j]

\* C13: at every step of the pickup and of the delivery sequencing, both
\* starting at the depot, the location appended has the minimum distance
\* from the current position among the unvisited ones, the first in input
\* order among those at that distance, and becomes the current position.
C13_NearestNeighbour ==
    /\ PickupsPlanned =>
          \A k \in DOMAIN pickup_sequence :
              NearestFirst([i \in DOMAIN pickup_sequence |->
                               StoreLocation(pickup_sequence[i].store)],
                           [i \in DOMAIN pickup_sequence |->
                               FirstDonation(pickup_sequence[i].store)], k)
    /\ DeliveriesPlanned =>
          \A k \in DOMAIN delivery_sequence :
              NearestFirst([i \in DOMAIN delivery_sequence |->
                               BankLocation(delivery_sequence[i].food_bank)],
                           [i \in DOMAIN delivery_sequence |->
                               delivery_sequence[i].food_bank], k)

\* Two stores at one distance from the depot: the store of the first
\* donation, store 2, was visited first
C13_Witness ==
    /\ opt_pc = "returned"
    /\ Len(pickup_sequence) = 2
    /\ geodesic_miles(region.center, StoreLocation(1))
          = geodesic_miles(region.center, StoreLocation(2))
    /\ pickup_sequence[1].store = 2
    /\ Len(delivery_sequence) = 2

\* C14: when the total daily need of the active banks is 0 (no bank, or
\* every bank with need 0) the allocation leaves every donation unallocated:
\* no bank's list holds a donation, whatever the free capacity.
C14_ZeroNeedUnallocated ==
    SumNeed(food_banks) = 0 =>
        \A b \in DOMAIN bank_allocation : bank_allocation[b] = <<>>

\* The urgency date of a donation: the earlier of its expiration date and
\* its sell-by date, 365 days ahead when it has neither
UrgencyDate(d) ==
    IF d.expiration_date # NULL /\ d.sell_by_date # NULL
    THEN Min(d.expiration_date, d.sell_by_date)
    ELSE IF d.expiration_date # NULL THEN d.expiration_date
    ELSE IF d.sell_by_date # NULL THEN d.sell_by_date
    ELSE 365

\* C15: the allocation considers the donations in ascending order of
\* urgency date, a donation with no date last: no donation waits behind one
\* with a later urgency date.
C15_UrgencyOrder ==
    opt_pc = "allocating" =>
        \A i, j \in DOMAIN sorted_donations :
            i < j => UrgencyDate(sorted_donations[i]) <= UrgencyDate(sorted_donations[j])

\* Banks with room for a donation
Eligible(d) ==
    {b \in DOMAIN food_banks :
        food_banks[b].storage_capacity_pounds - bank_current_weight[b]
            >= d.quantity_pounds}

\* score = (dailyNeed / totalDailyNeed) * (1 - allocated / capacity), times
\* 1.2 for a self-pickup bank and a donation over 50 lb; here multiplied by
\* totalDailyNeed, which is the same positive number for every bank
ScoreNum(d, b) ==
    food_banks[b].daily_average_need_pounds
    * (food_banks[b].storage_capacity_pounds - bank_current_weight[b])
    * (IF food_banks[b].can_self_pickup /\ d.quantity_pounds > 50 THEN 6 ELSE 5)
ScoreDen(b) == food_banks[b].storage_capacity_pounds * 5
ScoreAtLeast(d, a, b) == ScoreNum(d, a) * ScoreDen(b) >= ScoreNum(d, b) * ScoreDen(a)

\* C16: with a positive total need, a donation goes to the eligible bank of
\* highest score, the first in input order among those of highest score;
\* that bank's list gains the donation and its running weight grows by the
\* donation's weight, and nothing else changes; with no eligible bank the
\* allocation is unchanged.
C16_BestBank ==
    [][ (AllocateDonation /\ SumNeed(food_banks) > 0) =>
          LET d == Head(sorted_donations)
          IN IF Eligible(d) = {}
             THEN /\ bank_allocation' = bank_allocation
                  /\ bank_current_weight' = bank_current_weight
             ELSE \E best \in Eligible(d) :
                    /\ \A b \in Eligible(d) :
                          /\ ScoreAtLeast(d, best, b)
                          /\ (b # best /\ ScoreAtLeast(d, b, best)) => best < b
                    /\ bank_allocation' =
                          [bank_allocation EXCEPT ![best] = Append(@, d)]
                    /\ bank_current_weight' =
                          [bank_current_weight EXCEPT ![best] = @ + d.quantity_pounds]
      ]_vars

\* Of two empty banks of equal need the second, a self-pickup bank, received
\* a 150 lb donation
C16_Witness ==
    /\ opt_pc = "deliver"
    /\ Len(food_banks) = 2
    /\ food_banks[1].daily_average_need_pounds = food_banks[2].daily_average_need_pounds
    /\ food_banks[1].daily_average_need_pounds > 0
    /\ ~food_banks[1].can_self_pickup
    /\ food_banks[2].can_self_pickup
    /\ bank_allocation[1] = <<>>
    /\ Len(bank_allocation[2]) = 1
    /\ bank_allocation[2][1].quantity_pounds = 150

\* The donations in the order in which the allocation considers them
ConsideredOrder == SortedByKey(donations)

InSomeList(d, lists) ==
    \E b \in DOMAIN lists : \E k \in DOMAIN lists[b] : lists[b][k].id = d.id

\* C17: with a positive total daily need, the donation whose turn it is
\* stays out of every bank's list exactly when no bank has room for it; the
\* loop then goes on with the donations that follow.
C17_UnallocatedIffNoRoom ==
    [][ (AllocateDonation /\ SumNeed(food_banks) > 0) =>
          LET d == Head(sorted_donations)
          IN /\ ~InSomeList(d, bank_allocation') <=> Eligible(d) = {}
             /\ Eligible(d) = {} =>
                   /\ bank_allocation' = bank_allocation
                   /\ bank_current_weight' = bank_current_weight
             /\ opt_pc' = "allocating"
             /\ sorted_donations' = Tail(sorted_donations)
      ]_vars

\* An allocation has ended in which a donation found no bank with room and a
\* smaller donation considered after it was allocated
C17_Witness ==
    /\ opt_pc = "deliver"
    /\ SumNeed(food_banks) > 0
    /\ \E i, j \in DOMAIN ConsideredOrder :
          /\ i < j
          /\ ~InSomeList(ConsideredOrder[i], bank_allocation)
          /\ InSomeList(ConsideredOrder[j], bank_allocation)
          /\ ConsideredOrder[j].quantity_pounds < ConsideredOrder[i].quantity_pounds

\* C18: the plan builder never fails: whatever the pickup sequence, the
\* delivery sequence and the truck capacity of the region (0 included), the
\* step that builds the plan returns a plan and raises nothing.
C18_PlanNeverFails ==
    [][ CreateRoutePlan => (opt_pc' = "returned" /\ route_plan'.raised = "no") ]_vars

\* C19: a call with a donation whose weight is not positive is rejected at
\* the boundary: it returns no plan and no route is made of one.
C19_InvalidWeightRejected ==
    (\E i \in DOMAIN donations : donations[i].quantity_pounds <= 0) =>
        opt_pc \notin {"returned", "materialized"}

\* How many stops of a route have one of the types and one of the flags
CountStops(route, types, flags) ==
    Cardinality({s \in DOMAIN stops :
                    /\ stops[s].route = route
                    /\ stops[s].stop_type \in types
                    /\ stops[s].is_confirmed \in flags})

StopTypes == {"pickup", "delivery"}

\* The status dictionary agrees with the stops of the route
ConsistentStatus(status, route) ==
    /\ status.total_stops = CountStops(route, StopTypes, BOOLEAN)
    /\ status.confirmed_stops = CountStops(route, StopTypes, {TRUE})
    /\ status.pending_stops = CountStops(route, StopTypes, {FALSE})
    /\ status.total_stops = status.confirmed_stops + status.pending_stops
    /\ status.pickup_confirmations.total + status.delivery_confirmations.total
          = status.total_stops
    /\ \A type \in StopTypes :
          LET part == IF type = "pickup" THEN status.pickup_confirmations
                      ELSE status.delivery_confirmations
          IN /\ part.total = CountStops(route, {type}, BOOLEAN)
             /\ part.confirmed = CountStops(route, {type}, {TRUE})
             /\ part.confirmed + part.pending = part.total
    /\ IF status.total_stops = 0
       THEN status.confirmation_rate[1] = 0
       ELSE status.confirmation_rate[1] * status.total_stops
               = status.confirmed_stops * 100 * status.confirmation_rate[2]

\* C20: in every reachable state the readiness query of every route returns
\* counts consistent with the stops of the route (total = confirmed + pending,
\* pickups + deliveries = total, per type confirmed + pending = total, rate =
\* confirmed / total * 100 and 0 with no stop), and a readiness call changes
\* no stop and no notification.
C20_ConsistentCounts ==
    /\ [](\A route \in Routes :
             ConsistentStatus(check_pending_confirmations(stops, route), route))
    /\ [][ (\E route \in Routes : CheckPendingConfirmations(route)) =>
              /\ stops' = stops
              /\ notifications' = notifications
              /\ ConsistentStatus(result', result'.route_id) ]_vars

\* A readiness call has reported a route partly confirmed, with a confirmed
\* pickup and a pending delivery
C20_Witness ==
    /\ result.op = "check_pending_confirmations"
    /\ result.pickup_confirmations.confirmed >= 1
    /\ result.delivery_confirmations.pending >= 1
    /\ result.confirmed_stops < result.total_stops

\* The readiness of the routes other than one is what it was
OtherRoutesUnchanged(route) ==
    \A other \in Routes \ {route} :
        check_pending_confirmations(stops', other)
            = check_pending_confirmations(stops, other)

\* The readiness of a route after the step has one pending stop fewer and one
\* confirmed stop more than before it
OneFewerPending(route) ==
    LET before == check_pending_confirmations(stops, route)
        after == check_pending_confirmations(stops', route)
    IN /\ after.pending_stops = before.pending_stops - 1
       /\ after.confirmed_stops = before.confirmed_stops + 1
       /\ after.total_stops = before.total_stops

\* C21 as stated: a confirming response for any existing stop leaves the
\* stop's route with one pending stop fewer and one confirmed stop more, and
\* the readiness of every other route as it was.
C21_OneFewerPendingAlways ==
    [][ \A s \in StopIds, txt \in ConfirmingTexts :
          ProcessEmailResponse(s, txt) =>
            /\ OneFewerPending(stops[s].route)
            /\ OtherRoutesUnchanged(stops[s].route) ]_vars

\* C21, amended: a confirming response for a stop that is pending leaves the
\* stop's route with one pending stop fewer and one confirmed stop more; for a
\* stop that is already confirmed the readiness of its route does not change;
\* in both cases the readiness of every other route is as it was.
C21_OneFewerPending ==
    [][ \A s \in StopIds, txt \in ConfirmingTexts :
          ProcessEmailResponse(s, txt) =>
            /\ IF stops[s].is_confirmed
               THEN check_pending_confirmations(stops', stops[s].route)
                       = check_pending_confirmations(stops, stops[s].route)
               ELSE OneFewerPending(stops[s].route)
            /\ OtherRoutesUnchanged(stops[s].route) ]_vars

\* A confirming response was the first for its stop, in a route of several
\* stops: one stop of the route is confirmed, at the time of the response
C21_Witness ==
    /\ result.op = "process_email_response"
    /\ result.processed /\ result.action = "confirmed"
    /\ stops[result.stop_id].confirmed_at = now
    /\ LET status == check_pending_confirmations(stops, stops[result.stop_id].route)
       IN /\ status.confirmed_stops = 1
          /\ status.pending_stops >= 1

\* The stop rows of the new route, by stop_order
RowsWithOrder(k) == {s \in DOMAIN stops : stops[s].stop_order = k}

\* C22: the stops of a route made from a plan have the stop_order values
\* 1..n, each once, with n the number of pickup entries plus the number of
\* delivery entries; they follow the plan's sequences, pickups before
\* deliveries; a pickup stop references a store and no bank, a delivery stop a
\* bank and no store; every stop starts unconfirmed.
C22_StopOrderDense ==
    opt_pc = "materialized" =>
        LET pickups == route_plan.pickup_sequence
            deliveries == route_plan.delivery_sequence
            n == Len(pickups) + Len(deliveries)
        IN /\ Cardinality(DOMAIN stops) = n
           /\ \A s \in DOMAIN stops : stops[s].stop_order \in 1..n
           /\ \A k \in 1..n : Cardinality(RowsWithOrder(k)) = 1
           /\ \A s \in DOMAIN stops :
                 LET k == stops[s].stop_order
                 IN /\ stops[s].route = result.route.id
                    /\ ~stops[s].is_confirmed
                    /\ stops[s].confirmed_at = NULL
                    /\ IF k <= Len(pickups)
                       THEN /\ stops[s].stop_type = "pickup"
                            /\ stops[s].grocery_store = pickups[k].store
                            /\ stops[s].grocery_store # NULL
                            /\ stops[s].food_bank = NULL
                       ELSE /\ stops[s].stop_type = "delivery"
                            /\ stops[s].food_bank = deliveries[k - Len(pickups)].food_bank
                            /\ stops[s].food_bank # NULL
                            /\ stops[s].grocery_store = NULL

\* A route was made from a plan of two pickups and two deliveries
C22_Witness ==
    /\ opt_pc = "materialized"
    /\ Len(route_plan.pickup_sequence) = 2
    /\ Len(route_plan.delivery_sequence) = 2
    /\ Len(stops) = 4

\* What planning wrote in a stop row
PlannedPart(row) ==
    [ route |-> row.route,
      stop_order |-> row.stop_order,
      stop_type |-> row.stop_type,
      grocery_store |-> row.grocery_store,
      food_bank |-> row.food_bank,
      donations |-> row.donations,
      estimated_arrival_time |-> row.estimated_arrival_time,
      estimated_duration_minutes |-> row.estimated_duration_minutes ]

\* C23: no operation of the confirmation workflow creates or deletes a stop
\* or changes a stop's route, stop_order, type, store or bank reference,
\* donations, estimated arrival time or estimated duration.
C23_PlanningUntouched ==
    [][ /\ DOMAIN stops' = DOMAIN stops
        /\ \A s \in DOMAIN stops : PlannedPart(stops'[s]) = PlannedPart(stops[s])
      ]_vars

\* A reschedule request was recorded in the notes of a stop for which a
\* notification had been created
C23_Witness ==
    /\ result.op = "process_email_response"
    /\ result.processed /\ result.action = "reschedule_requested"
    /\ stops[result.stop_id].notes # <<>>
    /\ \E i \in 1..Len(notifications) : notifications[i].route_stop = result.stop_id

\* C24: with the operations run one at a time, a confirmed stop stays
\* confirmed through every later operation, whatever the text of a response,
\* and a route reported ready for execution is still reported ready after it.
C24_ConfirmedTerminal ==
    [][ /\ \A s \in DOMAIN stops : stops[s].is_confirmed => stops'[s].is_confirmed
        /\ \A route \in Routes :
              check_pending_confirmations(stops, route).ready_for_execution
                 => check_pending_confirmations(stops', route).ready_for_execution
      ]_vars

\* A reschedule request arrived for a confirmed stop of a ready route: the
\* stop is still confirmed and the route still ready
C24_Witness ==
    /\ result.op = "process_email_response"
    /\ result.processed /\ result.action = "reschedule_requested"
    /\ stops[result.stop_id].is_confirmed
    /\ stops[result.stop_id].notes # <<>>
    /\ LET status == check_pending_confirmations(stops, stops[result.stop_id].route)
       IN status.total_stops >= 1 /\ status.ready_for_execution

\* The view got a plan from optimize_route
PlanReturned ==
    \/ opt_pc \in {"returned", "materialized", "pickups_sent", "route_detail"}
    \/ opt_pc = "route_planning" /\ donations # <<>>

PlanStops(plan, pickup_field) ==
    [ k \in 1..(Len(plan.pickup_sequence) + Len(plan.delivery_sequence)) |->
        IF k <= Len(plan.pickup_sequence)
        THEN LET p == plan.pickup_sequence[k]
             IN [ location |-> StoreLocation(p.store),
                  arrival |-> IF pickup_field = "arrival_time"
                              THEN p.arrival_time ELSE p.estimated_arrival,
                  dwell |-> p.pickup_duration ]
        ELSE LET d == plan.delivery_sequence[k - Len(plan.pickup_sequence)]
             IN [ location |-> BankLocation(d.food_bank),
                  arrival |-> d.estimated_arrival,
                  dwell |-> d.delivery_duration ] ]

\* Minutes of travel between two locations: max(5, int(miles / 25 * 60) + 5)
TravelMinutes(a, b) == Max(5, ((geodesic_miles(a, b) * 60) \div 25) + 5)

\* One clock runs through the stops: 08:00 on the target date plus the travel
\* from the depot, then arrival + dwell + travel from stop to stop
ClockThreaded(plan, seq) ==
    \A k \in DOMAIN seq :
        seq[k].arrival =
            IF k = 1
            THEN EightOClock(plan.target_date)
                 + TravelMinutes(region.center, seq[1].location)
            ELSE seq[k - 1].arrival + seq[k - 1].dwell
                 + TravelMinutes(seq[k - 1].location, seq[k].location)

\* C26: in every plan returned the estimated arrivals follow one running
\* clock through the pickups and the deliveries, whichever of arrival_time
\* and estimated_arrival is read as the estimated arrival of a pickup.
C26_ClockThreaded ==
    opt_pc = "returned" =>
        \/ ClockThreaded(route_plan, PlanStops(route_plan, "estimated_arrival"))
        \/ ClockThreaded(route_plan, PlanStops(route_plan, "arrival_time"))

\* An estimator has returned a value
PickupEstimated ==
    opt_pc = "estimated" /\ result.op = "_estimate_pickup_duration"
DeliveryEstimated ==
    opt_pc = "estimated" /\ result.op = "_estimate_delivery_duration"

\* C27 as stated: neither estimator returns less than its floor, 15 for a
\* pickup and 20 for a delivery, and each returns its floor for an empty
\* donation set.
C27_FloorForEmpty ==
    /\ PickupEstimated =>
          /\ result.value >= 15
          /\ donations = <<>> => result.value = 15
    /\ DeliveryEstimated =>
          /\ result.value >= 20
          /\ donations = <<>> => result.value = 20

\* C27, amended: the pickup dwell is max(15, 10 + 2*itemCount +
\* 0.5*totalWeight) in whole minutes, 15 for an empty set; the delivery dwell
\* is max(20, 15 + 3*itemCount + 0.8*totalWeight + 10) in whole minutes, which
\* is 25 for an empty set and never less than 25.
C27_Floors ==
    /\ PickupEstimated =>
          /\ result.value >= 15
          /\ result.value =
                Max(15, (20 + 4 * Len(donations) + SumQuantity(donations)) \div 2)
          /\ donations = <<>> => result.value = 15
    /\ DeliveryEstimated =>
          /\ result.value >= 25
          /\ result.value =
                Max(20, (125 + 15 * Len(donations) + 4 * SumQuantity(donations)) \div 5)
          /\ donations = <<>> => result.value = 25

\* The delivery estimator was called on no donation and returned 25 minutes
C27_Witness ==
    /\ DeliveryEstimated
    /\ donations = <<>>
    /\ result.value = 25

\* Ten times 0.3*distanceScore + 0.4*capacityScore + 0.3*timeScore of a plan
\* with a stop, as the fraction num / den, the time score taken from the
\* total duration the plan reports
ClaimedScore(plan) ==
    LET stop_count == Len(plan.pickup_sequence) + Len(plan.delivery_sequence)
        capacity == region.truck_capacity_pounds
        dn == Min(100 * stop_count, 1000 \div 5)
        cn == Min(100 * capacity, plan.total_weight_pounds * 100)
        tn == Min(100 * 12, plan.total_duration_minutes * 5)
    IN [ num |-> 3 * dn * capacity * 12
                 + 4 * cn * stop_count * 12
                 + 3 * tn * stop_count * capacity,
         den |-> stop_count * capacity * 12 ]

\* C28: the efficiency score of every plan with a stop lies between 0 and
\* 100 and is, to one decimal, 0.3*distanceScore + 0.4*capacityScore +
\* 0.3*timeScore with the time score computed from the total duration the
\* plan reports.
C28_EfficiencyScore ==
    (opt_pc = "returned" /\ route_plan.pickup_sequence # <<>>) =>
        LET claimed == ClaimedScore(route_plan)
            off == route_plan.efficiency_score * claimed.den - claimed.num
        IN /\ route_plan.efficiency_score \in 0..1000
           /\ 2 * off <= claimed.den
           /\ 2 * off >= 0 - claimed.den

\* The pickup stops of a plan that carry a donation
CarryingPickups(plan, id) ==
    {k \in DOMAIN plan.pickup_sequence :
        \E i \in DOMAIN plan.pickup_sequence[k].donations :
            plan.pickup_sequence[k].donations[i].id = id}

\* How many times the pickup stops of a plan carry a donation
TimesCarried(plan, id) ==
    SumSeq([k \in DOMAIN plan.pickup_sequence |->
               Len(SelectSeq(plan.pickup_sequence[k].donations,
                             LAMBDA d : d.id = id))])

DeliveredWeight(plan) ==
    SumSeq([k \in DOMAIN plan.delivery_sequence |->
               plan.delivery_sequence[k].total_weight])

\* The donations no delivery stop of a plan carries
Undelivered(plan) ==
    {i \in DOMAIN donations :
        \A k \in DOMAIN plan.delivery_sequence :
            \A j \in DOMAIN plan.delivery_sequence[k].donations :
                plan.delivery_sequence[k].donations[j].id # i}

\* C29: in every plan returned each input donation is carried once, by the
\* pickup stop of its store, allocated or not; the total weight is the sum of
\* the weights of all input donations; the delivery stops carry at most that
\* weight, and exactly that weight when no donation was left unallocated.
C29_EveryDonationPickedUp ==
    opt_pc = "returned" =>
        /\ \A i \in DOMAIN donations :
              /\ TimesCarried(route_plan, i) = 1
              /\ \A k \in CarryingPickups(route_plan, i) :
                    route_plan.pickup_sequence[k].store = donations[i].grocery_store
        /\ route_plan.total_weight_pounds = SumQuantity(donations)
        /\ DeliveredWeight(route_plan) <= route_plan.total_weight_pounds
        /\ (DeliveredWeight(route_plan) = route_plan.total_weight_pounds)
              <=> (Undelivered(route_plan) = {})
        /\ Undelivered(route_plan) = Unallocated

\* A plan was returned that picks up two donations and delivers one of them
C29_Witness ==
    /\ opt_pc = "returned"
    /\ Len(donations) = 2
    /\ Cardinality(Undelivered(route_plan)) = 1
    /\ DeliveredWeight(route_plan) > 0
    /\ DeliveredWeight(route_plan) < route_plan.total_weight_pounds

\* A response containing "confirmed" has been received for a stop
ConfirmingReceived(s) ==
    /\ pc[Worker] = "get"
    /\ req[Worker].stop_id = s
    /\ req[Worker].response_content \in ConfirmingTexts

=============================================================================
